---- MODULE Spec2Model ----
(***************************************************************************)
(* Model of the Omen specification validation pipeline                     *)
(* (modules/0_input/inputvalidator.py and the older topovalidator.py).     *)
(*                                                                         *)
(* Conventions of the encoding:                                            *)
(*  - a Python str that the code only compares is a TLA+ string; a str the  *)
(*    code scans (positions, iw commands) is a sequence of 1-char strings;  *)
(*  - a finding {"loc","code","msg"} is a record; the f-string of loc is    *)
(*    kept as [base, idx, attr] (idx = NoIdx when the loc has no index) and *)
(*    the f-string of msg as [fmt, s, n1, n2] (format and its arguments);   *)
(*  - list indices are Python's (0-based); TLA+ sequences are 1-based, so   *)
(*    element k of a sequence is index k-1 of the list.                     *)
(***************************************************************************)
EXTENDS Integers, Sequences, FiniteSets, TLC

VARIABLES
    prog,       \* the program that runs: "inputvalidator", "topovalidator", or
                \* "validate_semantics" when the function is applied on its own
    pc,         \* where the run is: "start" before it, "done" after it
    cfg,        \* the config file: [state, data]
    args,       \* parse_args(): [emit_spec, include_spec]
    spec,       \* main: spec = Spec(**data), the typed specification (<<>> before)
    res,        \* main: res = validate_semantics(spec) (empty lists before)
    ok,         \* main: ok = len(res["errors"]) == 0 (FALSE before)
    stdout,     \* the JSON results printed on stdout, in order
    exit_code,  \* sys.exit status (NoExit while running)
    emitted,    \* what the run wrote to the --emit-spec file: <<>>, or <<tree>>
    topo_py,    \* what the run wrote to the --emit-topo file: <<>>, or <<text>>
    round,      \* 1 for a run on a drawn file, 2 for the run on the file it emitted
    first,      \* in round 2: what round 1 emitted and printed
    calls,      \* the calls of validate_semantics the process has made, in order:
                \* [given, spec, res, last_tf]
    \* mininet-script.py
    argv1,      \* main: the JSON file named by sys.argv[1] (<<>>, or <<tree>>)
    sta_objs,   \* build_from_spec: the keys of the station map, in insertion order
    ap_objs,    \* build_from_spec: the keys of the access point map
    position,   \* the position of each station (the value of its last setPosition)
    tests_by_timeframe, \* run_tests: the buckets; a bucket holds the places of its
                \* tests in the declared list
    timeframe,  \* run_tests: the bucket the outer loop is at
    sub_t,      \* run_tests: the place in the bucket the inner loop is at
    out,        \* run_tests: the text gathered for the bucket, one entry per part
    outfiles,   \* the files written to results_dir, in order: [name, text]
    executed,   \* the places of the tests whose branch has run, in order
    station,    \* run_iw_stations: the place of the station the loop is at
    access_point, \* run_iw_stations: the place of the access point the loop is at
    retries,    \* run_iw_stations: retries
    result,     \* run_iw_stations: result, the latest output (<<>>, or <<text>>)
    lines,      \* run_iw_stations: lines, one entry per appended part
    cmds,       \* the commands executed on the nodes, in order: [node, cmd, output]
    \* omenloader.py graph, sqliteloader.py
    set_args,   \* args: for each set [prefix, dir, nodes, edges, ts, ts_table]
    recreate,   \* args.recreate
    database,   \* what is committed to the SQLite file: table |-> rows
    set_idx,    \* the set the loop over (1, 2, 3) is at
    used,       \* used
    set_log     \* one entry per call of process_set: [idx, outcome, before, after]

\* the state of the runner and of run_iw_stations
runner == <<argv1, sta_objs, ap_objs, position, tests_by_timeframe, timeframe, sub_t,
            out, outfiles, executed>>
iwlink == <<station, access_point, retries, result, lines, cmds>>

\* the state of the loaders
loader == <<set_args, recreate, database, set_idx, used, set_log>>

vars == <<prog, pc, cfg, args, spec, res, ok, stdout, exit_code, emitted, topo_py, round,
          first, calls, runner, iwlink, loader>>

RunnerIdle ==
    /\ argv1 = <<>> /\ sta_objs = <<>> /\ ap_objs = <<>> /\ position = <<>>
    /\ tests_by_timeframe = <<>> /\ timeframe = 0 /\ sub_t = 0
    /\ out = <<>> /\ outfiles = <<>> /\ executed = <<>>

IwIdle ==
    /\ station = 0 /\ access_point = 0 /\ retries = 0
    /\ result = <<>> /\ lines = <<>> /\ cmds = <<>>

LoaderIdle ==
    /\ set_args = <<>> /\ recreate = FALSE /\ database = <<>>
    /\ set_idx = 0 /\ used = 0 /\ set_log = <<>>

\* the state of the other programs, which a run leaves alone
others == <<calls, runner, iwlink, loader>>
OthersIdle == calls = <<>> /\ RunnerIdle /\ IwIdle /\ LoaderIdle

NoExit == -1

NoIdx == -1

(***************************************************************************)
(* Bounds of the inputs drawn by the specifications.                       *)
(***************************************************************************)
MaxEntities == 4     \* access points + stations + tests of a drawn specification

SeqsUpTo(S, n) == UNION {[1..k -> S] : k \in 0..n}

Range(s) == {s[k] : k \in 1..Len(s)}

(***************************************************************************)
(* Strings the code scans, as character sequences.                         *)
(***************************************************************************)
Placeholder == <<"{", "i", "n", "t", "e", "r", "f", "a", "c", "e", "}">>

CmdWithPlaceholder ==
    <<"i", "w", " ", "d", "e", "v", " ">> \o Placeholder \o <<" ", "l", "i", "n", "k">>

CmdNoPlaceholder ==
    <<"i", "w", " ", "d", "e", "v", " ", "{", "i", "f", "a", "c", "e", "}", " ", "l", "i", "n", "k">>

PosOk == <<"1", ",", "2", ",", "3">>

(***************************************************************************)
(* validate_semantics                                                      *)
(***************************************************************************)
Finding(base, idx, attr, code, fmt, s, n1, n2) ==
    [loc |-> [base |-> base, idx |-> idx, attr |-> attr],
     code |-> code,
     msg |-> [fmt |-> fmt, s |-> s, n1 |-> n1, n2 |-> n2]]

\* "{interface}" not in t.cmd
Contains(hay, needle) ==
    \E k \in 1..(Len(hay) - Len(needle) + 1) :
        SubSeq(hay, k, k + Len(needle) - 1) = needle

(***************************************************************************)
(* _POSITION_RE and the position parser.                                   *)
(*   ^\s*(-?\d+(\.\d+)?)\s*,\s*(-?\d+(\.\d+)?)\s*,\s*(-?\d+(\.\d+)?)\s*$   *)
(* The expression is deterministic, so it is run as an automaton whose     *)
(* state is <<n, q>>: n is the number being read (1..3) and q the place in *)
(* \s*(-?\d+(\.\d+)?)\s* : "ws0" before the number, "sign" after '-',      *)
(* "int" in \d+, "dot" after '.', "frac" in the second \d+, "ws1" in the   *)
(* \s* after the number.  A ',' moves to the next number.                  *)
(***************************************************************************)
Digits == {"0", "1", "2", "3", "4", "5", "6", "7", "8", "9"}
Whitespace == {" ", "\t", "\n"}

DigitVal(c) ==
    CASE c = "0" -> 0 [] c = "1" -> 1 [] c = "2" -> 2 [] c = "3" -> 3
      [] c = "4" -> 4 [] c = "5" -> 5 [] c = "6" -> 6 [] c = "7" -> 7
      [] c = "8" -> 8 [] c = "9" -> 9

Dead == [n |-> 0, q |-> "dead"]
ReStart == [n |-> 1, q |-> "ws0"]

\* the ',' between two numbers; a third ',' has nothing to match
ReComma(st) == IF st.n < 3 THEN [n |-> st.n + 1, q |-> "ws0"] ELSE Dead

ReStep(st, c) ==
    CASE st.q = "ws0" ->
            IF c \in Whitespace THEN st
            ELSE IF c = "-" THEN [st EXCEPT !.q = "sign"]
            ELSE IF c \in Digits THEN [st EXCEPT !.q = "int"]
            ELSE Dead
      [] st.q = "sign" ->
            IF c \in Digits THEN [st EXCEPT !.q = "int"] ELSE Dead
      [] st.q = "int" ->
            IF c \in Digits THEN st
            ELSE IF c = "." THEN [st EXCEPT !.q = "dot"]
            ELSE IF c \in Whitespace THEN [st EXCEPT !.q = "ws1"]
            ELSE IF c = "," THEN ReComma(st)
            ELSE Dead
      [] st.q = "dot" ->
            IF c \in Digits THEN [st EXCEPT !.q = "frac"] ELSE Dead
      [] st.q = "frac" ->
            IF c \in Digits THEN st
            ELSE IF c \in Whitespace THEN [st EXCEPT !.q = "ws1"]
            ELSE IF c = "," THEN ReComma(st)
            ELSE Dead
      [] st.q = "ws1" ->
            IF c \in Whitespace THEN st
            ELSE IF c = "," THEN ReComma(st)
            ELSE Dead
      [] OTHER -> Dead

\* the automaton's state after the first k characters of v
RECURSIVE ReRun(_, _)
ReRun(v, k) == IF k = 0 THEN ReStart ELSE ReStep(ReRun(v, k - 1), v[k])

\* Mutant of PositionMatch: the end of the string is not required ($ left out)
PositionMatch_Prefix(v) ==
    \E k \in 0..Len(v) :
        LET st == ReRun(v, k)
        IN  st.n = 3 /\ st.q \in {"int", "frac", "ws1"}

\* _POSITION_RE.match(v): the whole string is consumed and the third number is complete
PositionMatch(v) ==
    LET st == ReRun(v, Len(v))
    IN  st.n = 3 /\ st.q \in {"int", "frac", "ws1"}

\* m.group(1), m.group(3), m.group(5): the text of number n (n = 1, 2, 3)
ReGroup(v, n) ==
    LET at == {k \in 1..Len(v) :
                  LET st == ReRun(v, k)
                  IN  st.n = n /\ st.q \in {"sign", "int", "dot", "frac"}}
        lo == CHOOSE k \in at : \A j \in at : k <= j
        hi == CHOOSE k \in at : \A j \in at : j <= k
    IN  SubSeq(v, lo, hi)

RECURSIVE DigitsValue(_)
DigitsValue(ds) ==
    IF ds = <<>> THEN 0
    ELSE 10 * DigitsValue(SubSeq(ds, 1, Len(ds) - 1)) + DigitVal(ds[Len(ds)])

RECURSIVE Pow10(_)
Pow10(n) == IF n = 0 THEN 1 ELSE 10 * Pow10(n - 1)

\* float(text) for a text matched by -?\d+(\.\d+)? : the value num/den
Float(text) ==
    LET neg == text[1] = "-"
        body == IF neg THEN Tail(text) ELSE text
        dots == {k \in 1..Len(body) : body[k] = "."}
        dot == IF dots = {} THEN Len(body) + 1 ELSE CHOOSE k \in dots : TRUE
        ip == SubSeq(body, 1, dot - 1)
        fp == SubSeq(body, dot + 1, Len(body))
        mag == DigitsValue(ip \o fp)
    IN  [num |-> IF neg THEN 0 - mag ELSE mag, den |-> Pow10(Len(fp))]

\* p without the whitespace at its ends
Strip(p) ==
    LET ink == {k \in 1..Len(p) : p[k] \notin Whitespace}
    IN  IF ink = {} THEN <<>>
        ELSE SubSeq(p, CHOOSE k \in ink : \A j \in ink : k <= j,
                       CHOOSE k \in ink : \A j \in ink : j <= k)

\* digits, non-empty
AllDigits(t) == t # <<>> /\ \A k \in 1..Len(t) : t[k] \in Digits

\* the mantissa of a float literal: digits, digits '.', digits '.' digits, '.' digits
IsMantissa(t) ==
    LET dots == {k \in 1..Len(t) : t[k] = "."}
    IN  IF dots = {} THEN AllDigits(t)
        ELSE /\ Cardinality(dots) = 1
             /\ LET d == CHOOSE k \in dots : TRUE
                    ip == SubSeq(t, 1, d - 1)
                    fp == SubSeq(t, d + 1, Len(t))
                IN  /\ ip # <<>> \/ fp # <<>>
                    /\ ip = <<>> \/ AllDigits(ip)
                    /\ fp = <<>> \/ AllDigits(fp)

\* t without a leading sign
Unsigned(t) == IF t # <<>> /\ t[1] \in {"-", "+"} THEN Tail(t) ELSE t

\* Mutant of FloatAccepts: a text with a sign is refused
FloatAccepts_NoSign(text) ==
    LET t == Strip(text)
        es == {k \in 1..Len(t) : t[k] \in {"e", "E"}}
    IN  IF es = {} THEN IsMantissa(t)
        ELSE LET e == CHOOSE k \in es : \A j \in es : k <= j
             IN  /\ IsMantissa(SubSeq(t, 1, e - 1))
                 /\ AllDigits(Unsigned(SubSeq(t, e + 1, Len(t))))

\* float(text) returns: whitespace at the ends, a sign, a mantissa and an
\* exponent are allowed (of the texts over digits, sign, '.', 'e' and
\* whitespace; the words inf and nan are not drawn)
FloatAccepts(text) ==
    LET t == Unsigned(Strip(text))
        es == {k \in 1..Len(t) : t[k] \in {"e", "E"}}
    IN  IF es = {} THEN IsMantissa(t)
        ELSE LET e == CHOOSE k \in es : \A j \in es : k <= j
             IN  /\ IsMantissa(SubSeq(t, 1, e - 1))
                 /\ AllDigits(Unsigned(SubSeq(t, e + 1, Len(t))))

\* _validate_position_str raises ValueError (the schema layer's check)
ValidatePositionStrRaises(v) == ~PositionMatch(v)

\* _positions_tuple raises: "assert m" when the expression does not match,
\* float() when a group is not a float literal
PositionsTupleRaises(pos) ==
    \/ ~PositionMatch(pos)
    \/ \E n \in 1..3 : ~FloatAccepts(ReGroup(pos, n))

\* _positions_tuple's return value when it does not raise
PositionsTuple(pos) ==
    <<Float(ReGroup(pos, 1)), Float(ReGroup(pos, 2)), Float(ReGroup(pos, 3))>>

(***************************************************************************)
(* validate_semantics(spec)                                                *)
(***************************************************************************)
\* Optional[float]: None, or a value
None == <<>>
Some(v) == <<v>>

IsMove(t) == t.type = "node movements"     \* isinstance(t, TestMove)
IsIw(t) == t.type = "iw"                   \* isinstance(t, TestIw)

Ids(nodes) == [k \in 1..Len(nodes) |-> nodes[k].id]

\* Mutant of DuplicateIdFindings: uniqueness checked within each collection only
DuplicateIdFindings_PerCollection(spec_) ==
    LET ap_ids == Ids(spec_.topo.aps)
        sta_ids == Ids(spec_.topo.stations)
    IN  IF Len(ap_ids) # Cardinality(Range(ap_ids))
           \/ Len(sta_ids) # Cardinality(Range(sta_ids))
        THEN <<Finding("topo.[aps|stations].id", NoIdx, "", "duplicate_id",
                       "duplicate node IDs across APs and Stations", "", 0, 0)>>
        ELSE <<>>

\* if len(all_ids) != len(set(all_ids)): one duplicate_id error
DuplicateIdFindings(spec_) ==
    LET all_ids == Ids(spec_.topo.aps) \o Ids(spec_.topo.stations)
    IN  IF Len(all_ids) # Cardinality(Range(all_ids))
        THEN <<Finding("topo.[aps|stations].id", NoIdx, "", "duplicate_id",
                       "duplicate node IDs across APs and Stations", "", 0, 0)>>
        ELSE <<>>

\* Mutant of StaSet: the set of all node ids, access points included
StaSet_AllNodes(spec_) == Range(Ids(spec_.topo.aps) \o Ids(spec_.topo.stations))

\* sta_set = set(sta_ids)
StaSet(spec_) == Range(Ids(spec_.topo.stations))

\* body of "for i, ap in enumerate(spec.topo.aps)"; i is the 0-based index
ApFindings(i, ap) ==
    (IF PositionsTupleRaises(ap.position)
     THEN <<Finding("topo.aps", i, "position", "bad_position",
                    "cannot parse 'x,y,z' as floats", "", 0, 0)>>
     ELSE <<>>)
    \o
    (IF ap.mode = "a" /\ ap.channel <= 0
     THEN <<Finding("topo.aps", i, "channel", "bad_channel",
                    "5GHz channel must be a positive integer (e.g., 36)", "", 0, 0)>>
     ELSE <<>>)

\* body of "for i, sta in enumerate(spec.topo.stations)"
StationFindings(i, sta) ==
    IF PositionsTupleRaises(sta.position)
    THEN <<Finding("topo.stations", i, "position", "bad_position",
                   "cannot parse 'x,y,z' as floats", "", 0, 0)>>
    ELSE <<>>

RECURSIVE ApLoop(_, _)
ApLoop(aps, k) ==
    IF k = 0 THEN <<>> ELSE ApLoop(aps, k - 1) \o ApFindings(k - 1, aps[k])

RECURSIVE StationLoop(_, _)
StationLoop(stations, k) ==
    IF k = 0 THEN <<>>
    ELSE StationLoop(stations, k - 1) \o StationFindings(k - 1, stations[k])

\* last_tf[node] of the defaultdict(lambda: -1)
LastTfDefault == -1
LastTf(last_tf, node) ==
    IF node \in DOMAIN last_tf THEN last_tf[node] ELSE LastTfDefault

\* Mutant of Max: the latest timeframe replaces the running maximum
Max_Latest(a, b) == b

\* max(prev, t.timeframe)
Max(a, b) == IF a >= b THEN a ELSE b

\* last_tf[t.node] = max(prev, t.timeframe)
SetLastTf(last_tf, node, value) ==
    [n \in DOMAIN last_tf \cup {node} |-> IF n = node THEN value ELSE last_tf[n]]

\* if t.node not in sta_set
UnknownStation(sta_set, t) == t.node \notin sta_set

\* if prev > t.timeframe
NonMonotonic(prev, t) == prev > t.timeframe

\* if "{interface}" not in t.cmd
MissingPlaceholder(t) == ~Contains(t.cmd, Placeholder)

\* Mutant of MoveStep: a Move of an unknown node is reported and not tracked
MoveStep_UnknownNotTracked(st, sta_set, i, t) ==
    LET prev == LastTf(st.last_tf, t.node)
    IN  IF UnknownStation(sta_set, t)
        THEN [st EXCEPT !.errors =
                 Append(st.errors,
                        Finding("tests", i, "node", "unknown_station",
                                "'{}' is not a known station id", t.node, 0, 0))]
        ELSE [errors |-> st.errors,
              warnings |->
                 IF NonMonotonic(prev, t)
                 THEN Append(st.warnings,
                             Finding("tests", i, "timeframe", "non_monotonic_timeframe",
                                     "timeframe {} for {} is less than previous {}; check ordering",
                                     t.node, t.timeframe, prev))
                 ELSE st.warnings,
              last_tf |-> SetLastTf(st.last_tf, t.node, Max(prev, t.timeframe))]

\* the TestMove branch of the tests loop; st = [errors, warnings, last_tf]
MoveStep(st, sta_set, i, t) ==
    LET prev == LastTf(st.last_tf, t.node)
    IN  [errors |->
            IF UnknownStation(sta_set, t)
            THEN Append(st.errors,
                        Finding("tests", i, "node", "unknown_station",
                                "'{}' is not a known station id", t.node, 0, 0))
            ELSE st.errors,
         warnings |->
            IF NonMonotonic(prev, t)
            THEN Append(st.warnings,
                        Finding("tests", i, "timeframe", "non_monotonic_timeframe",
                                "timeframe {} for {} is less than previous {}; check ordering",
                                t.node, t.timeframe, prev))
            ELSE st.warnings,
         last_tf |-> SetLastTf(st.last_tf, t.node, Max(prev, t.timeframe))]

\* Mutant of IwStep: the missing placeholder is recorded as an error
IwStep_AsError(st, i, t) ==
    IF MissingPlaceholder(t)
    THEN [st EXCEPT !.errors =
             Append(st.errors,
                    Finding("tests", i, "cmd", "missing_placeholder",
                            "cmd does not include '{interface}' placeholder", "", 0, 0))]
    ELSE st

\* the TestIw branch of the tests loop
IwStep(st, i, t) ==
    IF MissingPlaceholder(t)
    THEN [st EXCEPT !.warnings =
             Append(st.warnings,
                    Finding("tests", i, "cmd", "missing_placeholder",
                            "cmd does not include '{interface}' placeholder", "", 0, 0))]
    ELSE st

\* Mutant of TestStep: the tests are skipped once an error has been found
TestStep_StopOnError(st, sta_set, i, t) ==
    IF st.errors # <<>> THEN st
    ELSE IF IsMove(t) THEN MoveStep(st, sta_set, i, t)
    ELSE IF IsIw(t) THEN IwStep(st, i, t)
    ELSE st

\* one iteration of "for i, t in enumerate(spec.tests)"; i is the 0-based index
TestStep(st, sta_set, i, t) ==
    IF IsMove(t) THEN MoveStep(st, sta_set, i, t)
    ELSE IF IsIw(t) THEN IwStep(st, i, t)
    ELSE st

\* the state of the tests loop after the first k tests
RECURSIVE TestsLoop(_, _, _, _)
TestsLoop(st0, sta_set, tests, k) ==
    IF k = 0 THEN st0
    ELSE TestStep(TestsLoop(st0, sta_set, tests, k - 1), sta_set, k - 1, tests[k])

\* Mutant of BackendFindings: only the access points are looked at
BackendFindings_ApsOnly(spec_) ==
    IF spec_.meta.backend = "mininet" /\ spec_.topo.aps # <<>>
    THEN <<Finding("meta.backend", NoIdx, "", "backend_role_mismatch",
                   "APs/stations present but backend='mininet'. Use 'mininet-wifi' for Wi-Fi behavior.",
                   "", 0, 0)>>
    ELSE <<>>

\* if spec.meta.backend == "mininet" and (spec.topo.aps or spec.topo.stations)
BackendFindings(spec_) ==
    IF spec_.meta.backend = "mininet"
       /\ (spec_.topo.aps # <<>> \/ spec_.topo.stations # <<>>)
    THEN <<Finding("meta.backend", NoIdx, "", "backend_role_mismatch",
                   "APs/stations present but backend='mininet'. Use 'mininet-wifi' for Wi-Fi behavior.",
                   "", 0, 0)>>
    ELSE <<>>

\* if spec.topo.nets.noise_th > -30
NoiseCeiling == -30

\* Mutant of NoiseFindings: the ceiling itself warns
NoiseFindings_AtCeiling(spec_) ==
    IF spec_.topo.nets.noise_th >= NoiseCeiling
    THEN <<Finding("topo.nets.noise_th", NoIdx, "", "suspicious_noise_th",
                   "noise_th {} dBm is unusually high (less negative)",
                   "", spec_.topo.nets.noise_th, 0)>>
    ELSE <<>>

NoiseFindings(spec_) ==
    IF spec_.topo.nets.noise_th > NoiseCeiling
    THEN <<Finding("topo.nets.noise_th", NoIdx, "", "suspicious_noise_th",
                   "noise_th {} dBm is unusually high (less negative)",
                   "", spec_.topo.nets.noise_th, 0)>>
    ELSE <<>>

\* Mutant of ValidateSemantics: the stations are checked before the access
\* points, the backend and the noise threshold before the tests
ValidateSemantics_OtherOrder(spec_) ==
    LET e0 == DuplicateIdFindings(spec_)
                \o StationLoop(spec_.topo.stations, Len(spec_.topo.stations))
                \o ApLoop(spec_.topo.aps, Len(spec_.topo.aps))
        st == TestsLoop([errors |-> e0, warnings |-> <<>>, last_tf |-> <<>>],
                        StaSet(spec_), spec_.tests, Len(spec_.tests))
    IN  [errors |-> st.errors,
         warnings |-> BackendFindings(spec_) \o NoiseFindings(spec_) \o st.warnings]

\* Mutant of ValidateSemantics: the noise finding is appended to the errors
ValidateSemantics_NoiseAsError(spec_) ==
    LET e0 == DuplicateIdFindings(spec_)
                \o ApLoop(spec_.topo.aps, Len(spec_.topo.aps))
                \o StationLoop(spec_.topo.stations, Len(spec_.topo.stations))
        st == TestsLoop([errors |-> e0, warnings |-> <<>>, last_tf |-> <<>>],
                        StaSet(spec_), spec_.tests, Len(spec_.tests))
    IN  [errors |-> st.errors \o NoiseFindings(spec_),
         warnings |-> st.warnings \o BackendFindings(spec_)]

ValidateSemantics(spec_) ==
    LET e0 == DuplicateIdFindings(spec_)
                \o ApLoop(spec_.topo.aps, Len(spec_.topo.aps))
                \o StationLoop(spec_.topo.stations, Len(spec_.topo.stations))
        st == TestsLoop([errors |-> e0, warnings |-> <<>>, last_tf |-> <<>>],
                        StaSet(spec_), spec_.tests, Len(spec_.tests))
    IN  [errors |-> st.errors,
         warnings |-> st.warnings \o BackendFindings(spec_) \o NoiseFindings(spec_)]

\* Mutant of MainOk: a warning makes the run fail too
MainOk_NoFindings(res_) == Len(res_.errors) = 0 /\ Len(res_.warnings) = 0

\* main: ok = len(res["errors"]) == 0
MainOk(res_) == Len(res_.errors) = 0

(***************************************************************************)
(* Typed specifications (the Spec that main builds from the loaded data)   *)
(* drawn for the checks of validate_semantics.                              *)
(***************************************************************************)
NodeIds == {"n1", "n2"}
TimeFrames == {2, 3, 5}
Backends == {"mininet", "mininet-wifi"}
NoiseValues == {-91, -29}

\* one access point per id: mode "a" (channel 36) for n1, mode "g" (channel 6) for n2
APs == {[id |-> "n1", mode |-> "a", channel |-> 36, ssid |-> "net", position |-> PosOk],
        [id |-> "n2", mode |-> "g", channel |-> 6, ssid |-> "net", position |-> PosOk]}
Stations == [id : NodeIds, position : {PosOk}]
TestMoves == [name : {"t"}, type : {"node movements"}, timeframe : TimeFrames,
              node : NodeIds, position : {PosOk}]
TestIws == [name : {"t"}, type : {"iw"}, cmd : {CmdWithPlaceholder, CmdNoPlaceholder}]

MkSpec(backend, noise_th, aps, stations, tests) ==
    [schemaVersion |-> "1.0",
     meta |-> [backend |-> backend, name |-> "run", duration_s |-> 10],
     topo |-> [nets |-> [noise_th |-> noise_th,
                         propagation_model |-> [model |-> "logDistance", exp |-> 3, s |-> None]],
               aps |-> aps,
               stations |-> stations],
     tests |-> tests,
     username |-> "", password |-> "", address |-> ""]

(***************************************************************************)
(* SpecSem: validate_semantics applied to a typed specification, and       *)
(* main's ok computed from its result (inputvalidator.py, lines 327-328).  *)
(***************************************************************************)
NoFindings == [errors |-> <<>>, warnings |-> <<>>]

NoConfig == [state |-> "none", data |-> <<>>]
NoArgs == [emit_spec |-> <<>>, include_spec |-> FALSE]

InitSem ==
    /\ prog = "validate_semantics"
    /\ pc = "start"
    /\ cfg = NoConfig
    /\ args = NoArgs
    /\ stdout = <<>>
    /\ exit_code = NoExit
    /\ emitted = <<>>
    /\ topo_py = <<>>
    /\ round = 1
    /\ first = <<>>
    /\ OthersIdle
    /\ \E b \in Backends, n \in NoiseValues, a \in SeqsUpTo(APs, MaxEntities) :
          \E st \in SeqsUpTo(Stations, MaxEntities - Len(a)) :
            \E t \in SeqsUpTo(TestMoves \cup TestIws, MaxEntities - Len(a) - Len(st)) :
              spec = MkSpec(b, n, a, st, t)
    /\ res = NoFindings
    /\ ok = FALSE

SemanticChecks ==
    /\ prog = "validate_semantics"
    /\ pc = "start"
    /\ pc' = "done"
    /\ res' = ValidateSemantics(spec)
    /\ ok' = MainOk(res')
    /\ UNCHANGED <<prog, cfg, args, spec, stdout, exit_code, emitted, topo_py, round, first>>
    /\ UNCHANGED others

NextSem == SemanticChecks

SpecSem == InitSem /\ [][NextSem]_vars

(***************************************************************************)
(* Properties of validate_semantics (checked under SpecSem).               *)
(***************************************************************************)
\* positions of the records of a findings list with a given code
WithCode(list, code) == {k \in 1..Len(list) : list[k].code = code}

\* positions of the records of a findings list with a given code and location
FindingsAt(list, code, base, idx, attr) ==
    {k \in WithCode(list, code) :
        list[k].loc = [base |-> base, idx |-> idx, attr |-> attr]}

PooledIds == Ids(spec.topo.aps) \o Ids(spec.topo.stations)

\* some id occurs at two places of the pool
HasRepeatedId ==
    \E i, j \in 1..Len(PooledIds) : i < j /\ PooledIds[i] = PooledIds[j]

DeclaredStation(id) == \E k \in 1..Len(spec.topo.stations) : spec.topo.stations[k].id = id
DeclaredAp(id) == \E k \in 1..Len(spec.topo.aps) : spec.topo.aps[k].id = id

\* C3: validate_semantics emits exactly one duplicate_id error, at
\* topo.[aps|stations].id, when some id occurs twice in the pool of access-point
\* ids followed by station ids (whatever collections the two occurrences are in
\* and however many ids repeat), and none when the pooled ids are distinct;
\* a spec with a duplicate has ok = false.
C3_DuplicateIdOnce ==
    pc = "done" =>
        /\ WithCode(res.warnings, "duplicate_id") = {}
        /\ IF HasRepeatedId
           THEN /\ Cardinality(WithCode(res.errors, "duplicate_id")) = 1
                /\ FindingsAt(res.errors, "duplicate_id",
                              "topo.[aps|stations].id", NoIdx, "")
                     = WithCode(res.errors, "duplicate_id")
                /\ ok = FALSE
           ELSE WithCode(res.errors, "duplicate_id") = {}

\* C3 witness: an access point and a station share an id, two different ids are
\* repeated, and the run reported one duplicate_id error
C3_Witness ==
    /\ pc = "done"
    /\ Len(PooledIds) = 4
    /\ \A id \in NodeIds : DeclaredAp(id) /\ DeclaredStation(id)
    /\ Cardinality(WithCode(res.errors, "duplicate_id")) = 1

\* C4: for every Move at index i there is an unknown_station error at
\* tests[i].node exactly when its node is not the id of a declared station (an
\* id of an access point only counts as unknown); the error makes ok = false; no
\* unknown_station record exists for any other test or in the warnings.
C4_UnknownStation ==
    pc = "done" =>
        /\ WithCode(res.warnings, "unknown_station") = {}
        /\ \A k \in 1..Len(spec.tests) :
              LET t == spec.tests[k]
                  hits == FindingsAt(res.errors, "unknown_station", "tests", k - 1, "node")
              IN  IF IsMove(t) /\ ~DeclaredStation(t.node)
                  THEN Cardinality(hits) = 1 /\ ok = FALSE
                  ELSE hits = {}
        /\ \A e \in WithCode(res.errors, "unknown_station") :
              /\ res.errors[e].loc.base = "tests"
              /\ res.errors[e].loc.attr = "node"
              /\ res.errors[e].loc.idx \in 0..(Len(spec.tests) - 1)

\* C4 witness: a Move names an id that only an access point carries, beside a
\* diagnostic command, and the run reported it
C4_Witness ==
    /\ pc = "done"
    /\ \E k \in 1..Len(spec.tests) :
          /\ IsMove(spec.tests[k])
          /\ DeclaredAp(spec.tests[k].node)
          /\ ~DeclaredStation(spec.tests[k].node)
          /\ FindingsAt(res.errors, "unknown_station", "tests", k - 1, "node") # {}
    /\ \E k \in 1..Len(spec.tests) : IsIw(spec.tests[k])
    /\ spec.topo.stations # <<>>

\* an earlier Move of the same node has a strictly greater timeframe
EarlierGreater(k) ==
    \E j \in 1..(k - 1) :
        /\ IsMove(spec.tests[j])
        /\ spec.tests[j].node = spec.tests[k].node
        /\ spec.tests[j].timeframe > spec.tests[k].timeframe

\* the tests are three Moves of node n1 with timeframes 2, 5, 3
Tests253 ==
    /\ Len(spec.tests) = 3
    /\ \A k \in 1..3 : IsMove(spec.tests[k]) /\ spec.tests[k].node = "n1"
    /\ [k \in 1..3 |-> spec.tests[k].timeframe] = <<2, 5, 3>>

\* C5: there is a non_monotonic_timeframe warning at tests[i].timeframe for the
\* Move at index i exactly when an earlier Move of the same node has a strictly
\* greater timeframe (so an equal timeframe, a Move of another node and the first
\* Move of a node never warn); it is never an error.  Timeframes [2,5,3] of one
\* station give one warning, on the third action, and ok = true.
C5_NonMonotonicTimeframe ==
    pc = "done" =>
        /\ WithCode(res.errors, "non_monotonic_timeframe") = {}
        /\ \A k \in 1..Len(spec.tests) :
              LET hits == FindingsAt(res.warnings, "non_monotonic_timeframe",
                                     "tests", k - 1, "timeframe")
              IN  IF IsMove(spec.tests[k]) /\ EarlierGreater(k)
                  THEN Cardinality(hits) = 1
                  ELSE hits = {}
        /\ \A w \in WithCode(res.warnings, "non_monotonic_timeframe") :
              /\ res.warnings[w].loc.base = "tests"
              /\ res.warnings[w].loc.attr = "timeframe"
              /\ res.warnings[w].loc.idx \in 0..(Len(spec.tests) - 1)
        /\ Tests253 =>
              /\ Cardinality(WithCode(res.warnings, "non_monotonic_timeframe")) = 1
              /\ FindingsAt(res.warnings, "non_monotonic_timeframe",
                            "tests", 2, "timeframe") # {}
              /\ (DeclaredStation("n1") /\ ~HasRepeatedId => ok = TRUE)

\* C5 witness: station n1 is declared and moved at timeframes 2, 5, 3; the run
\* ended with ok = true and the warning on the third action
C5_Witness ==
    /\ pc = "done"
    /\ Tests253
    /\ DeclaredStation("n1")
    /\ ok = TRUE
    /\ FindingsAt(res.warnings, "non_monotonic_timeframe", "tests", 2, "timeframe") # {}

\* the token {interface} occurs in cmd
HasInterfaceToken(cmd) ==
    \E k \in 1..Len(cmd) :
        /\ k + Len(Placeholder) - 1 <= Len(cmd)
        /\ \A j \in 1..Len(Placeholder) : cmd[k + j - 1] = Placeholder[j]

\* C6: for every DiagnosticCommand at index i there is a missing_placeholder
\* warning at tests[i].cmd exactly when cmd lacks the token {interface}; the
\* finding is never an error, so a spec whose only finding source is one such
\* command has ok = true, no errors and exactly one missing_placeholder warning.
C6_MissingPlaceholderWarns ==
    pc = "done" =>
        /\ WithCode(res.errors, "missing_placeholder") = {}
        /\ \A k \in 1..Len(spec.tests) :
              LET t == spec.tests[k]
                  hits == FindingsAt(res.warnings, "missing_placeholder",
                                     "tests", k - 1, "cmd")
              IN  IF IsIw(t) /\ ~HasInterfaceToken(t.cmd)
                  THEN Cardinality(hits) = 1
                  ELSE hits = {}
        /\ \A w \in WithCode(res.warnings, "missing_placeholder") :
              /\ res.warnings[w].loc.base = "tests"
              /\ res.warnings[w].loc.attr = "cmd"
              /\ res.warnings[w].loc.idx \in 0..(Len(spec.tests) - 1)
        /\ (/\ Len(spec.tests) = 1
            /\ IsIw(spec.tests[1])
            /\ ~HasInterfaceToken(spec.tests[1].cmd)
            /\ ~HasRepeatedId)
           => /\ ok = TRUE
              /\ res.errors = <<>>
              /\ Cardinality(WithCode(res.warnings, "missing_placeholder")) = 1

\* C6 witness: an otherwise valid spec with one command lacking the token ended
\* with ok = true and the single warning
C6_Witness ==
    /\ pc = "done"
    /\ Len(spec.tests) = 1
    /\ IsIw(spec.tests[1])
    /\ spec.tests[1].cmd = CmdNoPlaceholder
    /\ spec.topo.stations # <<>>
    /\ ok = TRUE
    /\ res.errors = <<>>
    /\ FindingsAt(res.warnings, "missing_placeholder", "tests", 0, "cmd") # {}

(***************************************************************************)
(* JSON trees: what json.load returns and json.dump writes.                *)
(* A dict keeps its insertion order: kids is the sequence of <<key, value>> *)
(* pairs.  A str the code only compares is kept in s, a str the code scans  *)
(* in cs (its characters).  A float is kept by its value n (the inputs      *)
(* drawn are whole numbers) and differs from the int n by its tag.          *)
(***************************************************************************)
JNull == [t |-> "null"]
JStr(s) == [t |-> "str", s |-> s, cs |-> <<>>]
JChars(cs) == [t |-> "str", s |-> "", cs |-> cs]
JInt(n) == [t |-> "int", n |-> n]
JFloat(n) == [t |-> "float", n |-> n]
JList(items) == [t |-> "list", items |-> items]
JObj(kids) == [t |-> "obj", kids |-> kids]
\* the str that holds a hex digest
JDigest(h) == [t |-> "digest", h |-> h]

Keys(obj) == [k \in 1..Len(obj.kids) |-> obj.kids[k][1]]
HasKey(obj, key) == \E k \in 1..Len(obj.kids) : obj.kids[k][1] = key

\* obj[key]
Get(obj, key) ==
    obj.kids[CHOOSE k \in 1..Len(obj.kids) : obj.kids[k][1] = key][2]

\* obj[key] = value: replaces the value in place, or appends a new pair
SetKey(obj, key, value) ==
    IF HasKey(obj, key)
    THEN JObj([k \in 1..Len(obj.kids) |->
                 IF obj.kids[k][1] = key THEN <<key, value>> ELSE obj.kids[k]])
    ELSE JObj(Append(obj.kids, <<key, value>>))

(***************************************************************************)
(* _spec_hash: json.dumps(spec_dict, sort_keys=True).encode(), then the    *)
(* first 12 characters of the SHA-256 hex digest.                          *)
(*                                                                         *)
(* The text json.dumps writes is kept as its sequence of tokens.  SHA-256  *)
(* is kept symbolic: the digest of a text is the record that names the     *)
(* text, so equal texts have equal digests and nothing else is assumed.    *)
(***************************************************************************)
\* the keys the schema and the result use, in str order (code points)
KeyOrder ==
    <<"address", "aps", "backend", "channel", "cmd", "duration_s", "exp", "id",
      "meta", "mode", "model", "name", "nets", "node", "noise_th", "password",
      "position", "propagation_model", "s", "schemaVersion", "schema_hash",
      "ssid", "stations", "tests", "timeframe", "topo", "type", "username">>

KeyRank(key) == CHOOSE r \in 1..Len(KeyOrder) : KeyOrder[r] = key

\* sorted(dict.items()): the pairs by ascending key
SortedKids(kids) ==
    LET present == SelectSeq(KeyOrder,
                             LAMBDA key : \E j \in 1..Len(kids) : kids[j][1] = key)
    IN  [i \in 1..Len(present) |->
            kids[CHOOSE j \in 1..Len(kids) : kids[j][1] = present[i]]]

\* Mutant of DictItems: sort_keys is ignored
DictItems_Unsorted(kids, sort_keys) == kids

\* the order in which json.dumps writes the items of a dict
DictItems(kids, sort_keys) == IF sort_keys THEN SortedKids(kids) ELSE kids

Punct(p) == [k |-> "punct", p |-> p]

RECURSIVE Dumps(_, _)
RECURSIVE DumpsItems(_, _, _)
RECURSIVE DumpsKids(_, _, _)

\* json.dumps(v, sort_keys=sort_keys) as a sequence of tokens
Dumps(v, sort_keys) ==
    CASE v.t = "obj" ->
            <<Punct("{")>> \o DumpsKids(DictItems(v.kids, sort_keys), 1, sort_keys)
                \o <<Punct("}")>>
      [] v.t = "list" ->
            <<Punct("[")>> \o DumpsItems(v.items, 1, sort_keys) \o <<Punct("]")>>
      [] v.t = "null" -> <<Punct("null")>>
      [] OTHER -> <<v>>

DumpsItems(items, k, sort_keys) ==
    IF k > Len(items) THEN <<>>
    ELSE (IF k > 1 THEN <<Punct(", ")>> ELSE <<>>)
         \o Dumps(items[k], sort_keys) \o DumpsItems(items, k + 1, sort_keys)

DumpsKids(kids, k, sort_keys) ==
    IF k > Len(kids) THEN <<>>
    ELSE (IF k > 1 THEN <<Punct(", ")>> ELSE <<>>)
         \o <<JStr(kids[k][1]), Punct(": ")>> \o Dumps(kids[k][2], sort_keys)
         \o DumpsKids(kids, k + 1, sort_keys)

\* hashlib.sha256(raw).hexdigest()[:n]
HashHexLen == 12
Sha256HexPrefix(raw, n) == [sha256_of |-> raw, hex_chars |-> n]

\* _spec_hash(spec_dict)
SpecHash(spec_dict) == Sha256HexPrefix(Dumps(spec_dict, TRUE), HashHexLen)

(***************************************************************************)
(* The pydantic models (schema).  A model is the sequence of its fields in *)
(* declaration order; a field names its key, its kind and its constraint:  *)
(*   "str"      str with min_length / max_length (NoLimit: none)           *)
(*   "literal"  Literal[...] of the strings in allowed                     *)
(*   "int"      int with Field(gt=) / Field(ge=)                           *)
(*   "float"    float with Field(gt=) / Field(le=)                         *)
(*   "optfloat" Optional[float] = None                                     *)
(*   "chars"    str without constraint, kept by its characters             *)
(*   "position" str checked by _validate_position_str                      *)
(* Validation collects the errors of all fields (none stops the others);   *)
(* keys that are no field of the model are ignored (pydantic's default).   *)
(* The inputs drawn give a number field a number and a str field a str, so *)
(* pydantic's conversion of numeric strings is not exercised.              *)
(***************************************************************************)
NoLimit == -1

FStr(key, min_len, max_len) ==
    [key |-> key, kind |-> "str", required |-> TRUE, min_len |-> min_len, max_len |-> max_len]
FStrDefault(key) ==
    [key |-> key, kind |-> "str", required |-> FALSE, min_len |-> NoLimit, max_len |-> NoLimit]
FLiteral(key, allowed) ==
    [key |-> key, kind |-> "literal", required |-> TRUE, allowed |-> allowed]
FInt(key, op, bound) ==
    [key |-> key, kind |-> "int", required |-> TRUE, op |-> op, bound |-> bound]
FFloat(key, op, bound) ==
    [key |-> key, kind |-> "float", required |-> TRUE, op |-> op, bound |-> bound]
FOptFloat(key) == [key |-> key, kind |-> "optfloat", required |-> FALSE]
\* Optional[int|float] = Field(default=..., <bounds>): bounds is a sequence of <<op, bound>>
FOptNum(key, is_int, default, bounds) ==
    [key |-> key, kind |-> "optnum", required |-> FALSE, is_int |-> is_int,
     default |-> default, bounds |-> bounds]
FChars(key) == [key |-> key, kind |-> "chars", required |-> TRUE]
FPosition(key) == [key |-> key, kind |-> "position", required |-> TRUE]

MetaFields ==
    <<FLiteral("backend", {"mininet", "mininet-wifi"}),
      FStr("name", 1, 64),
      FInt("duration_s", "gt", 0)>>

PropagationModelFields ==
    <<FLiteral("model", {"logDistance", "logNormalShadowing"}),
      FFloat("exp", "gt", 0),
      FOptFloat("s")>>

NetsNoiseField == FFloat("noise_th", "le", 0)

\* Mutant of APFields: channel 0 passes the schema
APFields_ChannelFromZero ==
    <<FStr("id", 1, NoLimit),
      FLiteral("mode", {"a", "b", "g", "n", "ac", "ax"}),
      FInt("channel", "ge", 0),
      FStr("ssid", 1, 32),
      FPosition("position")>>

APFields ==
    <<FStr("id", 1, NoLimit),
      FLiteral("mode", {"a", "b", "g", "n", "ac", "ax"}),
      FInt("channel", "gt", 0),
      FStr("ssid", 1, 32),
      FPosition("position")>>

StationFields == <<FStr("id", 1, NoLimit), FPosition("position")>>

TestMoveFields ==
    <<FStr("name", NoLimit, NoLimit),
      FLiteral("type", {"node movements"}),
      FInt("timeframe", "ge", 0),
      FStr("node", NoLimit, NoLimit),
      FPosition("position")>>

\* Mutant of TestIwFields: tags that are not declared are taken for a command
TestIwFields_LooseTag ==
    <<FStr("name", NoLimit, NoLimit),
      FLiteral("type", {"iw", "IW", "ping"}),
      FChars("cmd")>>

TestIwFields ==
    <<FStr("name", NoLimit, NoLimit),
      FLiteral("type", {"iw"}),
      FChars("cmd")>>

SpecCredentialFields ==
    <<FStrDefault("username"), FStrDefault("password"), FStrDefault("address")>>

\* Mutant of BoundOk: gt is taken as ge and ge as gt
BoundOk_StrictnessSwapped(op, bound, n) ==
    CASE op = "gt" -> n >= bound
      [] op = "ge" -> n > bound
      [] op = "le" -> n <= bound

\* Field(gt=), Field(ge=), Field(le=)
BoundOk(op, bound, n) ==
    CASE op = "gt" -> n > bound
      [] op = "ge" -> n >= bound
      [] op = "le" -> n <= bound

BoundMsg(op) ==
    CASE op = "gt" -> "Input should be greater than {}"
      [] op = "ge" -> "Input should be greater than or equal to {}"
      [] op = "le" -> "Input should be less than or equal to {}"

\* one entry of ValidationError.errors(); loc is base[.idx][.attr]
SchemaError(base, idx, attr, msg, n) ==
    Finding(base, idx, attr, "pydantic", msg, "", n, 0)

\* the errors of field f of the dict obj, reported at base[.idx].<prefix><key>
FieldErrors(obj, f, base, idx, prefix) ==
    LET at == prefix \o f.key
        v == Get(obj, f.key)
    IN  IF ~HasKey(obj, f.key)
        THEN IF f.required
             THEN <<SchemaError(base, idx, at, "Field required", 0)>>
             ELSE <<>>
        ELSE CASE f.kind = "str" ->
                    IF v.t # "str"
                    THEN <<SchemaError(base, idx, at, "Input should be a valid string", 0)>>
                    ELSE IF f.min_len # NoLimit /\ Len(v.s) < f.min_len
                    THEN <<SchemaError(base, idx, at,
                                       "String should have at least {} character", f.min_len)>>
                    ELSE IF f.max_len # NoLimit /\ Len(v.s) > f.max_len
                    THEN <<SchemaError(base, idx, at,
                                       "String should have at most {} characters", f.max_len)>>
                    ELSE <<>>
               [] f.kind = "literal" ->
                    IF v.t # "str" \/ v.s \notin f.allowed
                    THEN <<SchemaError(base, idx, at, "Input should be one of the literals", 0)>>
                    ELSE <<>>
               [] f.kind \in {"int", "float"} ->
                    IF v.t \notin {"int", "float"}
                    THEN <<SchemaError(base, idx, at, "Input should be a valid number", 0)>>
                    ELSE IF ~BoundOk(f.op, f.bound, v.n)
                    THEN <<SchemaError(base, idx, at, BoundMsg(f.op), f.bound)>>
                    ELSE <<>>
               [] f.kind = "optfloat" ->
                    IF v.t \notin {"int", "float", "null"}
                    THEN <<SchemaError(base, idx, at, "Input should be a valid number", 0)>>
                    ELSE <<>>
               [] f.kind = "optnum" ->
                    IF v.t = "null" THEN <<>>
                    ELSE IF v.t \notin {"int", "float"}
                    THEN <<SchemaError(base, idx, at, "Input should be a valid number", 0)>>
                    ELSE LET bad == SelectSeq(f.bounds, LAMBDA b : ~BoundOk(b[1], b[2], v.n))
                         IN  IF bad = <<>> THEN <<>>
                             ELSE <<SchemaError(base, idx, at, BoundMsg(bad[1][1]), bad[1][2])>>
               [] f.kind = "chars" ->
                    IF v.t # "str"
                    THEN <<SchemaError(base, idx, at, "Input should be a valid string", 0)>>
                    ELSE <<>>
               [] f.kind = "position" ->
                    IF v.t # "str"
                    THEN <<SchemaError(base, idx, at, "Input should be a valid string", 0)>>
                    ELSE IF ValidatePositionStrRaises(v.cs)
                    THEN <<SchemaError(base, idx, at,
                              "Value error, position must be 'x,y,z' with numeric components", 0)>>
                    ELSE <<>>

\* the validated value of field f of the dict obj (meaningful when f has no error)
FieldValue(obj, f) ==
    IF ~HasKey(obj, f.key)
    THEN CASE f.kind = "optfloat" -> None
           [] f.kind = "optnum" -> f.default
           [] OTHER -> ""
    ELSE LET v == Get(obj, f.key)
         IN  CASE f.kind \in {"str", "literal"} -> v.s
               [] f.kind \in {"int", "float"} -> v.n
               [] f.kind \in {"optfloat", "optnum"} -> IF v.t = "null" THEN None ELSE Some(v.n)
               [] f.kind \in {"chars", "position"} -> v.cs

RECURSIVE FieldsErrors(_, _, _, _, _, _)
FieldsErrors(obj, fields, k, base, idx, prefix) ==
    IF k > Len(fields) THEN <<>>
    ELSE FieldErrors(obj, fields[k], base, idx, prefix)
         \o FieldsErrors(obj, fields, k + 1, base, idx, prefix)

\* the errors of the fields of a model, in declaration order
ModelErrors(obj, fields, base, idx, prefix) ==
    IF obj.t # "obj"
    THEN <<SchemaError(base, idx, prefix, "Input should be a valid dictionary", 0)>>
    ELSE FieldsErrors(obj, fields, 1, base, idx, prefix)

\* the validated model: its declared fields only
ModelValue(obj, fields) ==
    [key \in {fields[k].key : k \in 1..Len(fields)} |->
        FieldValue(obj, fields[CHOOSE k \in 1..Len(fields) : fields[k].key = key])]

\* a required field that is itself a model or a list: "Field required" when absent
RequiredErrors(obj, key, base, present_errors) ==
    IF ~HasKey(obj, key)
    THEN <<SchemaError(base, NoIdx, key, "Field required", 0)>>
    ELSE present_errors

\* Mutant of RequireSForLns: s = 0 is let through
RequireSForLns_NonNegative(m) ==
    IF m.model = "logNormalShadowing" /\ (m.s = None \/ ~(m.s[1] >= 0))
    THEN <<SchemaError("topo.nets.propagation_model", NoIdx, "",
              "Value error, propagation_model.s must be provided and > 0 when model='logNormalShadowing'",
              0)>>
    ELSE <<>>

\* PropagationModel._require_s_for_lns (mode="after"): m is the validated model
RequireSForLns(m) ==
    IF m.model = "logNormalShadowing" /\ (m.s = None \/ ~(m.s[1] > 0))
    THEN <<SchemaError("topo.nets.propagation_model", NoIdx, "",
              "Value error, propagation_model.s must be provided and > 0 when model='logNormalShadowing'",
              0)>>
    ELSE <<>>

\* PropagationModel: the after-validator runs only when the fields are valid
PropagationModelErrors(pm) ==
    LET fe == ModelErrors(pm, PropagationModelFields, "topo.nets.propagation_model", NoIdx, "")
    IN  IF fe # <<>> THEN fe
        ELSE RequireSForLns(ModelValue(pm, PropagationModelFields))

NetsErrors(nets) ==
    IF nets.t # "obj"
    THEN <<SchemaError("topo.nets", NoIdx, "", "Input should be a valid dictionary", 0)>>
    ELSE FieldErrors(nets, NetsNoiseField, "topo.nets", NoIdx, "")
         \o RequiredErrors(nets, "propagation_model", "topo.nets",
                           PropagationModelErrors(Get(nets, "propagation_model")))

NetsValue(nets) ==
    [noise_th |-> FieldValue(nets, NetsNoiseField),
     propagation_model |-> ModelValue(Get(nets, "propagation_model"), PropagationModelFields)]

RECURSIVE ModelListErrors(_, _, _, _)
\* List[AP], List[Station]: the errors of the items from the k-th on
ModelListErrors(items, fields, k, base) ==
    IF k > Len(items) THEN <<>>
    ELSE ModelErrors(items[k], fields, base, k - 1, "")
         \o ModelListErrors(items, fields, k + 1, base)

\* a list field with default_factory=list
OptionalListErrors(obj, key, fields, base) ==
    IF ~HasKey(obj, key) THEN <<>>
    ELSE IF Get(obj, key).t # "list"
    THEN <<SchemaError(base, NoIdx, "", "Input should be a valid list", 0)>>
    ELSE ModelListErrors(Get(obj, key).items, fields, 1, base)

OptionalListValue(obj, key, fields) ==
    IF ~HasKey(obj, key) THEN <<>>
    ELSE LET items == Get(obj, key).items
         IN  [k \in 1..Len(items) |-> ModelValue(items[k], fields)]

TopologyErrors(topo) ==
    IF topo.t # "obj"
    THEN <<SchemaError("topo", NoIdx, "", "Input should be a valid dictionary", 0)>>
    ELSE RequiredErrors(topo, "nets", "topo", NetsErrors(Get(topo, "nets")))
         \o OptionalListErrors(topo, "aps", APFields, "topo.aps")
         \o OptionalListErrors(topo, "stations", StationFields, "topo.stations")

TopologyValue(topo) ==
    [nets |-> NetsValue(Get(topo, "nets")),
     aps |-> OptionalListValue(topo, "aps", APFields),
     stations |-> OptionalListValue(topo, "stations", StationFields)]

\* TestVariant = TestMove | TestIw: the item is the member that validates; when
\* none does, the errors of both members are reported under the member's name
TestVariantErrors(t, i) ==
    LET em == ModelErrors(t, TestMoveFields, "tests", i, "TestMove.")
        ei == ModelErrors(t, TestIwFields, "tests", i, "TestIw.")
    IN  IF em = <<>> \/ ei = <<>> THEN <<>> ELSE em \o ei

TestVariantValue(t) ==
    IF ModelErrors(t, TestMoveFields, "tests", 0, "TestMove.") = <<>>
    THEN ModelValue(t, TestMoveFields)
    ELSE ModelValue(t, TestIwFields)

RECURSIVE TestListErrors(_, _)
TestListErrors(items, k) ==
    IF k > Len(items) THEN <<>>
    ELSE TestVariantErrors(items[k], k - 1) \o TestListErrors(items, k + 1)

TestsErrors(tests) ==
    IF tests.t # "list"
    THEN <<SchemaError("tests", NoIdx, "", "Input should be a valid list", 0)>>
    ELSE TestListErrors(tests.items, 1)

\* ValidationError.errors() of Spec(**data), for a dict data; <<>> when data is valid
SpecErrors(data) ==
    FieldErrors(data, FStr("schemaVersion", NoLimit, NoLimit), "", NoIdx, "")
    \o RequiredErrors(data, "meta", "", ModelErrors(Get(data, "meta"), MetaFields, "meta", NoIdx, ""))
    \o RequiredErrors(data, "topo", "", TopologyErrors(Get(data, "topo")))
    \o RequiredErrors(data, "tests", "", TestsErrors(Get(data, "tests")))
    \o FieldsErrors(data, SpecCredentialFields, 1, "", NoIdx, "")

\* Spec(**data) for a valid dict data
SpecValue(data) ==
    [schemaVersion |-> Get(data, "schemaVersion").s,
     meta |-> ModelValue(Get(data, "meta"), MetaFields),
     topo |-> TopologyValue(Get(data, "topo")),
     tests |-> [k \in 1..Len(Get(data, "tests").items) |->
                   TestVariantValue(Get(data, "tests").items[k])],
     username |-> FieldValue(data, SpecCredentialFields[1]),
     password |-> FieldValue(data, SpecCredentialFields[2]),
     address |-> FieldValue(data, SpecCredentialFields[3])]

(***************************************************************************)
(* spec.model_dump(): the dict of the declared fields, in declaration      *)
(* order, nested models and lists dumped in turn.                          *)
(***************************************************************************)
DumpField(f, value) ==
    CASE f.kind \in {"str", "literal"} -> JStr(value)
      [] f.kind = "int" -> JInt(value)
      [] f.kind = "float" -> JFloat(value)
      [] f.kind = "optfloat" -> IF value = None THEN JNull ELSE JFloat(value[1])
      [] f.kind = "optnum" ->
            IF value = None THEN JNull
            ELSE IF f.is_int THEN JInt(value[1]) ELSE JFloat(value[1])
      [] f.kind \in {"chars", "position"} -> JChars(value)

DumpKids(m, fields) ==
    [k \in 1..Len(fields) |-> <<fields[k].key, DumpField(fields[k], m[fields[k].key])>>]

DumpModel(m, fields) == JObj(DumpKids(m, fields))

DumpModelList(items, fields) ==
    JList([k \in 1..Len(items) |-> DumpModel(items[k], fields)])

DumpTest(t) ==
    IF IsMove(t) THEN DumpModel(t, TestMoveFields) ELSE DumpModel(t, TestIwFields)

ModelDump(spec_) ==
    JObj(<<<<"schemaVersion", JStr(spec_.schemaVersion)>>,
           <<"meta", DumpModel(spec_.meta, MetaFields)>>,
           <<"topo", JObj(<<
                <<"nets", JObj(<<
                    <<"noise_th", DumpField(NetsNoiseField, spec_.topo.nets.noise_th)>>,
                    <<"propagation_model",
                      DumpModel(spec_.topo.nets.propagation_model, PropagationModelFields)>> >>)>>,
                <<"aps", DumpModelList(spec_.topo.aps, APFields)>>,
                <<"stations", DumpModelList(spec_.topo.stations, StationFields)>> >>)>>,
           <<"tests", JList([k \in 1..Len(spec_.tests) |-> DumpTest(spec_.tests[k])])>> >>
         \o DumpKids(spec_, SpecCredentialFields))

(***************************************************************************)
(* inputvalidator.py: main                                                 *)
(*   cfg  = [state, data]: the config file: "missing", "unreadable" (open  *)
(*          fails), "bad_json" (json.load fails) or "ok" with its tree     *)
(*   args = [emit_spec, include_spec]: emit_spec is None or <<path>>       *)
(* A run yields what it printed on stdout (out), its exit status and the   *)
(* content of the --emit-spec file when it wrote one (<<>> when not).      *)
(***************************************************************************)
NoArg == <<>>

\* Mutant of HashedDict: the fingerprint is taken of the loaded data
HashedDict_Data(data, norm) == data

\* the dict handed to _spec_hash: norm = spec.model_dump()
HashedDict(data, norm) == norm

\* norm.setdefault("meta", {})["schema_hash"] = h
AttachHash(norm, h) ==
    LET meta == IF HasKey(norm, "meta") THEN Get(norm, "meta") ELSE JObj(<<>>)
    IN  SetKey(norm, "meta", SetKey(meta, "schema_hash", JDigest(h)))

\* Mutant of Normalize: the key is attached first and the hash taken of the result
Normalize_HashAfterAttach(data, spec_) ==
    LET norm == ModelDump(spec_)
    IN  AttachHash(norm, SpecHash(AttachHash(norm, SpecHash(norm))))

\* the normalized spec with its fingerprint (lines 330-333)
Normalize(data, spec_) ==
    LET norm == ModelDump(spec_)
    IN  AttachHash(norm, SpecHash(HashedDict(data, norm)))

\* Mutant of FailedRun: the failure is printed and the exit status is 0
FailedRun_ExitZero(errors) ==
    [out |-> [ok |-> FALSE, errors |-> errors, warnings |-> <<>>],
     exit |-> 0,
     emitted |-> <<>>,
     validated |-> FALSE,
     spec |-> <<>>,
     res |-> NoFindings]

FailedRun(errors) ==
    [out |-> [ok |-> FALSE, errors |-> errors, warnings |-> <<>>],
     exit |-> 1,
     emitted |-> <<>>,
     validated |-> FALSE,
     spec |-> <<>>,
     res |-> NoFindings]

\* Mutant of EmitAllowed: the file is written whenever --emit-spec is given
EmitAllowed_Always(ok_, args_) == args_.emit_spec # NoArg

\* if ok and args.emit_spec
EmitAllowed(ok_, args_) == ok_ /\ args_.emit_spec # NoArg

\* Mutant of IncludeAllowed: the spec is included whenever --include-spec is given
IncludeAllowed_Always(ok_, args_) == args_.include_spec

\* Mutant of IncludeAllowed: the spec is included only when it is also written
IncludeAllowed_NeedsEmit(ok_, args_) == args_.include_spec /\ ok_ /\ args_.emit_spec # NoArg

\* if args.include_spec and ok
IncludeAllowed(ok_, args_) == args_.include_spec /\ ok_

\* the run from "Semantic checks" on, for the validated spec_
ValidatedRun(data, spec_, args_) ==
    LET res_ == ValidateSemantics(spec_)
        ok_ == MainOk(res_)
        norm == Normalize(data, spec_)
        out0 == [ok |-> ok_, errors |-> res_.errors, warnings |-> res_.warnings]
    IN  [out |-> IF IncludeAllowed(ok_, args_)
                 THEN [ok |-> ok_, errors |-> res_.errors, warnings |-> res_.warnings,
                       spec |-> norm]
                 ELSE out0,
         exit |-> IF ok_ THEN 0 ELSE 1,
         emitted |-> IF EmitAllowed(ok_, args_) THEN <<norm>> ELSE <<>>,
         validated |-> TRUE,
         spec |-> <<spec_>>,
         res |-> res_]

\* Mutant of InputValidatorRun: a root that is not an object is left to the
\* schema layer, which reports it with the schema code
InputValidatorRun_RootToSchema(cfg_, args_) ==
    IF cfg_.state = "missing"
    THEN FailedRun(<<Finding("config", NoIdx, "", "not_found",
                             "Config file not found: {}", "", 0, 0)>>)
    ELSE IF cfg_.state # "ok"
    THEN FailedRun(<<Finding("root", NoIdx, "", "load_error", "{}", cfg_.state, 0, 0)>>)
    ELSE IF cfg_.data.t # "obj"
    THEN FailedRun(<<SchemaError("", NoIdx, "", "Input should be a valid dictionary", 0)>>)
    ELSE IF SpecErrors(cfg_.data) # <<>>
    THEN FailedRun(SpecErrors(cfg_.data))
    ELSE ValidatedRun(cfg_.data, SpecValue(cfg_.data), args_)

InputValidatorRun(cfg_, args_) ==
    IF cfg_.state = "missing"
    THEN FailedRun(<<Finding("config", NoIdx, "", "not_found",
                             "Config file not found: {}", "", 0, 0)>>)
    ELSE IF cfg_.state # "ok" \/ cfg_.data.t # "obj"
    THEN FailedRun(<<Finding("root", NoIdx, "", "load_error", "{}", cfg_.state, 0, 0)>>)
    ELSE IF SpecErrors(cfg_.data) # <<>>
    THEN FailedRun(SpecErrors(cfg_.data))
    ELSE ValidatedRun(cfg_.data, SpecValue(cfg_.data), args_)

(***************************************************************************)
(* Config files drawn for the runs of main.                                *)
(***************************************************************************)
RECURSIVE HandWritten(_)
RECURSIVE HandWrittenKids(_, _)

\* a pair a hand-written file leaves out: the value is the field's default
DefaultPair(pair) ==
    \/ pair[2].t = "null"
    \/ pair[1] \in {"username", "password", "address"} /\ pair[2] = JStr("")
    \/ pair[1] \in {"aps", "stations"} /\ pair[2] = JList(<<>>)

\* the tree of a dumped spec as a person would write it: whole numbers without
\* a fraction, defaults left out, keys in another (the reverse) order
HandWritten(v) ==
    CASE v.t = "obj" -> JObj(HandWrittenKids(v.kids, 1))
      [] v.t = "list" -> JList([k \in 1..Len(v.items) |-> HandWritten(v.items[k])])
      [] v.t = "float" -> JInt(v.n)
      [] OTHER -> v

HandWrittenKids(kids, k) ==
    IF k > Len(kids) THEN <<>>
    ELSE HandWrittenKids(kids, k + 1)
         \o (IF DefaultPair(kids[k]) THEN <<>>
             ELSE <<<<kids[k][1], HandWritten(kids[k][2])>>>>)

\* a hand-written file that carries a stale meta.schema_hash
WithStaleHash(data) ==
    SetKey(data, "meta", SetKey(Get(data, "meta"), "schema_hash", JStr("0123456789ab")))

FileStyles == {"dumped", "hand", "hand-stale-hash"}

ConfigData(spec_, style) ==
    CASE style = "dumped" -> ModelDump(spec_)
      [] style = "hand" -> HandWritten(ModelDump(spec_))
      [] style = "hand-stale-hash" -> WithStaleHash(HandWritten(ModelDump(spec_)))

PosBad == <<"1", ",", "2">>

\* v with the value at path replaced (or added); a path names dict keys and
\* 1-based list places
RECURSIVE SetIn(_, _, _, _)
SetIn(v, path, k, value) ==
    IF k > Len(path) THEN value
    ELSE IF v.t = "obj"
    THEN SetKey(v, path[k],
                SetIn(IF HasKey(v, path[k]) THEN Get(v, path[k]) ELSE JNull,
                      path, k + 1, value))
    ELSE JList([i \in 1..Len(v.items) |->
                   IF i = path[k] THEN SetIn(v.items[i], path, k + 1, value)
                   ELSE v.items[i]])

\* v with the key at the end of path removed
RECURSIVE DelIn(_, _, _)
DelIn(v, path, k) ==
    IF v.t = "obj"
    THEN IF k = Len(path)
         THEN JObj(SelectSeq(v.kids, LAMBDA pair : pair[1] # path[k]))
         ELSE SetKey(v, path[k], DelIn(Get(v, path[k]), path, k + 1))
    ELSE JList([i \in 1..Len(v.items) |->
                   IF i = path[k] THEN DelIn(v.items[i], path, k + 1)
                   ELSE v.items[i]])

\* the valid specification the faulty files are made from: one access point,
\* one station, a Move of the station and a diagnostic command
BaseSpec ==
    MkSpec("mininet-wifi", -91,
           <<[id |-> "n1", mode |-> "a", channel |-> 36, ssid |-> "net", position |-> PosOk]>>,
           <<[id |-> "n2", position |-> PosOk]>>,
           <<[name |-> "t", type |-> "node movements", timeframe |-> 2, node |-> "n2",
              position |-> PosOk],
             [name |-> "t", type |-> "iw", cmd |-> CmdWithPlaceholder]>>)

\* single violations of a field constraint
Faults ==
    <<[op |-> "set", path |-> <<"meta", "duration_s">>, value |-> JInt(0)],
      [op |-> "set", path |-> <<"meta", "backend">>, value |-> JStr("ns3")],
      [op |-> "set", path |-> <<"topo", "nets", "noise_th">>, value |-> JInt(1)],
      [op |-> "set", path |-> <<"topo", "nets", "propagation_model", "exp">>, value |-> JInt(0)],
      [op |-> "set", path |-> <<"topo", "aps", 1, "channel">>, value |-> JInt(0)],
      [op |-> "set", path |-> <<"topo", "aps", 1, "position">>, value |-> JChars(PosBad)],
      [op |-> "set", path |-> <<"tests", 1, "timeframe">>, value |-> JInt(-1)],
      [op |-> "del", path |-> <<"tests", 1, "timeframe">>, value |-> JNull],
      [op |-> "set", path |-> <<"tests", 2, "type">>, value |-> JStr("ping")]>>

MaxFaults == 2       \* violations planted in one drawn file

ApplyFault(data, f) ==
    IF f.op = "set" THEN SetIn(data, f.path, 1, f.value) ELSE DelIn(data, f.path, 1)

\* data with the faults of the set fs planted, in the order of the list faults
RECURSIVE ApplyFaults(_, _, _, _)
ApplyFaults(data, faults, fs, k) ==
    IF k > Len(faults) THEN data
    ELSE ApplyFaults(IF k \in fs THEN ApplyFault(data, faults[k]) ELSE data,
                     faults, fs, k + 1)

\* the propagation_model entries drawn: each model with s absent, null, -1, 0 and 2
PropagationModels == {"logDistance", "logNormalShadowing"}
SValues == {<<>>, <<JNull>>, <<JInt(-1)>>, <<JInt(0)>>, <<JInt(2)>>}

WithPropagationModel(data, model, s) ==
    LET d1 == SetIn(data, <<"topo", "nets", "propagation_model", "model">>, 1, JStr(model))
    IN  IF s = <<>> THEN d1
        ELSE SetIn(d1, <<"topo", "nets", "propagation_model", "s">>, 1, s[1])

ArgSets == [emit_spec : {NoArg, <<"spec.json">>}, include_spec : BOOLEAN]

MaxMainEntities == 2     \* access points + stations + tests of a file drawn for main

(***************************************************************************)
(* topovalidator.py: the older validator.  Its models, validate_semantics  *)
(* and main; the errors it prints are strings "<loc>: <msg>", kept here as *)
(* records of their parts.                                                 *)
(***************************************************************************)
TopoMetaFields ==
    <<FLiteral("backend", {"mininet", "mininet-wifi"}),
      FStr("name", 1, 64),
      FInt("duration_s", "gt", 0)>>

NodesFields ==
    <<FStr("id", 1, NoLimit),
      FLiteral("role", {"ap", "sta", "host", "switch"}),
      FOptFloat("tx_dbm"),
      FOptFloat("rx_sensitivity_dbm")>>

MtuDefault == 1500
MtuMin == 256
MtuMax == 65000
LossPktMax == 100

ConstraintsFields ==
    <<FOptNum("loss_pkt", FALSE, Some(0), <<<<"ge", 0>>, <<"le", LossPktMax>>>>),
      FOptNum("throughput_mbps", FALSE, None, <<<<"gt", 0>>>>),
      FOptNum("mtu", TRUE, Some(MtuDefault), <<<<"ge", MtuMin>>, <<"le", MtuMax>>>>),
      FOptNum("delay_ms", FALSE, Some(0), <<<<"ge", 0>>>>)>>

LinkNodeFields ==
    <<FStr("node_id_a", NoLimit, NoLimit), FStr("node_id_b", NoLimit, NoLimit)>>

PingDefault == 5

TestPingFields ==
    <<FStr("name", NoLimit, NoLimit),
      FLiteral("type", {"ping"}),
      FStr("src", NoLimit, NoLimit),
      FStr("dst", NoLimit, NoLimit),
      FOptNum("count", TRUE, Some(PingDefault), <<<<"ge", 1>>>>),
      FOptNum("deadline_s", TRUE, Some(PingDefault), <<<<"ge", 1>>>>)>>

TestPingallFields ==
    <<FStr("name", NoLimit, NoLimit), FLiteral("type", {"pingall"})>>

TestTCPiperfFields ==
    <<FStr("name", NoLimit, NoLimit),
      FLiteral("type", {"iperf_tcp"}),
      FStr("src", NoLimit, NoLimit),
      FStr("dst", NoLimit, NoLimit),
      FInt("duration_s", "gt", 0)>>

TestUDPiperfFields ==
    <<FStr("name", NoLimit, NoLimit),
      FLiteral("type", {"iperf_udp"}),
      FStr("src", NoLimit, NoLimit),
      FStr("dst", NoLimit, NoLimit),
      FInt("duration_s", "gt", 0),
      FFloat("rate_mbps", "gt", 0)>>

\* TestVariant = TestPing | TestPingall | TestTCPiperf | TestUDPiperf
TopoTestVariants ==
    <<[name |-> "TestPing.", fields |-> TestPingFields],
      [name |-> "TestPingall.", fields |-> TestPingallFields],
      [name |-> "TestTCPiperf.", fields |-> TestTCPiperfFields],
      [name |-> "TestUDPiperf.", fields |-> TestUDPiperfFields]>>

\* Link.check_nodes (mode="after"): l is the validated link
CheckNodes(l, i) ==
    IF l.node_id_a = l.node_id_b
    THEN <<SchemaError("topo.links", i, "",
                       "Value error, A link must connect two different nodes", 0)>>
    ELSE <<>>

LinkValue(link) ==
    [node_id_a |-> FieldValue(link, LinkNodeFields[1]),
     node_id_b |-> FieldValue(link, LinkNodeFields[2]),
     constraints |-> ModelValue(IF HasKey(link, "constraints")
                                THEN Get(link, "constraints") ELSE JObj(<<>>),
                                ConstraintsFields)]

\* Link: constraints has a default_factory; check_nodes runs when the fields are valid
LinkErrors(link, i) ==
    IF link.t # "obj"
    THEN <<SchemaError("topo.links", i, "", "Input should be a valid dictionary", 0)>>
    ELSE LET fe == FieldsErrors(link, LinkNodeFields, 1, "topo.links", i, "")
                   \o (IF HasKey(link, "constraints")
                       THEN ModelErrors(Get(link, "constraints"), ConstraintsFields,
                                        "topo.links", i, "constraints.")
                       ELSE <<>>)
         IN  IF fe # <<>> THEN fe ELSE CheckNodes(LinkValue(link), i)

RECURSIVE LinkListErrors(_, _)
LinkListErrors(items, k) ==
    IF k > Len(items) THEN <<>>
    ELSE LinkErrors(items[k], k - 1) \o LinkListErrors(items, k + 1)

\* Topology: nodes is required, links defaults to the empty list
TopoTopologyErrors(topo) ==
    IF topo.t # "obj"
    THEN <<SchemaError("topo", NoIdx, "", "Input should be a valid dictionary", 0)>>
    ELSE RequiredErrors(topo, "nodes", "topo",
            IF Get(topo, "nodes").t # "list"
            THEN <<SchemaError("topo.nodes", NoIdx, "", "Input should be a valid list", 0)>>
            ELSE ModelListErrors(Get(topo, "nodes").items, NodesFields, 1, "topo.nodes"))
         \o (IF ~HasKey(topo, "links") THEN <<>>
             ELSE IF Get(topo, "links").t # "list"
             THEN <<SchemaError("topo.links", NoIdx, "", "Input should be a valid list", 0)>>
             ELSE LinkListErrors(Get(topo, "links").items, 1))

TopoTopologyValue(topo) ==
    [nodes |-> OptionalListValue(topo, "nodes", NodesFields),
     links |-> IF ~HasKey(topo, "links") THEN <<>>
               ELSE LET items == Get(topo, "links").items
                    IN  [k \in 1..Len(items) |-> LinkValue(items[k])]]

\* the members of the union that accept t
TopoTestMatches(t) ==
    SelectSeq(TopoTestVariants, LAMBDA m : ModelErrors(t, m.fields, "tests", 0, m.name) = <<>>)

RECURSIVE TopoTestMemberErrors(_, _, _)
TopoTestMemberErrors(t, i, k) ==
    IF k > Len(TopoTestVariants) THEN <<>>
    ELSE ModelErrors(t, TopoTestVariants[k].fields, "tests", i, TopoTestVariants[k].name)
         \o TopoTestMemberErrors(t, i, k + 1)

\* when no member accepts the item, the errors of every member are reported
TopoTestVariantErrors(t, i) ==
    IF TopoTestMatches(t) # <<>> THEN <<>> ELSE TopoTestMemberErrors(t, i, 1)

TopoTestVariantValue(t) == ModelValue(t, TopoTestMatches(t)[1].fields)

RECURSIVE TopoTestListErrors(_, _)
TopoTestListErrors(items, k) ==
    IF k > Len(items) THEN <<>>
    ELSE TopoTestVariantErrors(items[k], k - 1) \o TopoTestListErrors(items, k + 1)

\* ValidationError.errors() of topovalidator's Spec, for a dict data
TopoSpecErrors(data) ==
    FieldErrors(data, FStr("schemaVersion", NoLimit, NoLimit), "", NoIdx, "")
    \o RequiredErrors(data, "meta", "",
                      ModelErrors(Get(data, "meta"), TopoMetaFields, "meta", NoIdx, ""))
    \o RequiredErrors(data, "topo", "", TopoTopologyErrors(Get(data, "topo")))
    \o RequiredErrors(data, "tests", "",
            IF Get(data, "tests").t # "list"
            THEN <<SchemaError("tests", NoIdx, "", "Input should be a valid list", 0)>>
            ELSE TopoTestListErrors(Get(data, "tests").items, 1))

TopoSpecValue(data) ==
    [schemaVersion |-> Get(data, "schemaVersion").s,
     meta |-> ModelValue(Get(data, "meta"), TopoMetaFields),
     topo |-> TopoTopologyValue(Get(data, "topo")),
     tests |-> [k \in 1..Len(Get(data, "tests").items) |->
                   TopoTestVariantValue(Get(data, "tests").items[k])]]

TopoTestFields(t) ==
    CASE t.type = "ping" -> TestPingFields
      [] t.type = "pingall" -> TestPingallFields
      [] t.type = "iperf_tcp" -> TestTCPiperfFields
      [] t.type = "iperf_udp" -> TestUDPiperfFields

DumpLink(l) ==
    JObj(DumpKids(l, LinkNodeFields)
         \o <<<<"constraints", DumpModel(l.constraints, ConstraintsFields)>>>>)

\* spec.model_dump() of topovalidator's Spec
TopoModelDump(spec_) ==
    JObj(<<<<"schemaVersion", JStr(spec_.schemaVersion)>>,
           <<"meta", DumpModel(spec_.meta, TopoMetaFields)>>,
           <<"topo", JObj(<<
                <<"nodes", DumpModelList(spec_.topo.nodes, NodesFields)>>,
                <<"links", JList([k \in 1..Len(spec_.topo.links) |->
                                     DumpLink(spec_.topo.links[k])])>> >>)>>,
           <<"tests", JList([k \in 1..Len(spec_.tests) |->
                                DumpModel(spec_.tests[k], TopoTestFields(spec_.tests[k]))])>> >>)

\* one message of topovalidator's validate_semantics
TopoMessage(fmt, idx, s) == [fmt |-> fmt, idx |-> idx, s |-> s]

TopoLinkFindings(link, i, node_set) ==
    (IF link.node_id_a \notin node_set
     THEN <<TopoMessage("links[{}].node_id_a '{}' not found", i, link.node_id_a)>>
     ELSE <<>>)
    \o (IF link.node_id_b \notin node_set
        THEN <<TopoMessage("links[{}].node_id_b '{}' not found", i, link.node_id_b)>>
        ELSE <<>>)

\* hasattr(t, "src"), hasattr(t, "dst"): every variant but TestPingall
TopoTestFindings(t, i, node_set) ==
    (IF "src" \in DOMAIN t /\ t.src \notin node_set
     THEN <<TopoMessage("tests[{}].src '{}' not found in topo.nodes", i, t.src)>>
     ELSE <<>>)
    \o (IF "dst" \in DOMAIN t /\ t.dst \notin node_set
        THEN <<TopoMessage("tests[{}].dst '{}' not found in topo.nodes", i, t.dst)>>
        ELSE <<>>)

RECURSIVE TopoLinksLoop(_, _, _)
TopoLinksLoop(links, k, node_set) ==
    IF k > Len(links) THEN <<>>
    ELSE TopoLinkFindings(links[k], k - 1, node_set) \o TopoLinksLoop(links, k + 1, node_set)

RECURSIVE TopoTestsLoop(_, _, _)
TopoTestsLoop(tests, k, node_set) ==
    IF k > Len(tests) THEN <<>>
    ELSE TopoTestFindings(tests[k], k - 1, node_set) \o TopoTestsLoop(tests, k + 1, node_set)

\* topovalidator.validate_semantics
TopoValidateSemantics(spec_) ==
    LET ids == [k \in 1..Len(spec_.topo.nodes) |-> spec_.topo.nodes[k].id]
        node_set == Range(ids)
    IN  [errors |-> (IF Len(ids) # Cardinality(node_set)
                     THEN <<TopoMessage("duplicate node IDs found", NoIdx, "")>>
                     ELSE <<>>)
                    \o TopoLinksLoop(spec_.topo.links, 1, node_set)
                    \o TopoTestsLoop(spec_.tests, 1, node_set),
         warnings |-> <<>>]

\* generate_topo_py(spec): the text of the script, kept as the spec it is written from
GenerateTopoPy(spec_) == [topo_py_for |-> spec_]

\* f"{'.'.join(map(str, e['loc']))}: {e['msg']}" for each schema error
TopoErrorStrings(errors) ==
    [k \in 1..Len(errors) |-> [loc |-> errors[k].loc, msg |-> errors[k].msg]]

TopoFailedRun(errors) ==
    [out |-> [ok |-> FALSE, errors |-> errors, warnings |-> <<>>],
     exit |-> 1,
     emitted |-> <<>>,
     topo_py |-> <<>>,
     validated |-> FALSE,
     spec |-> <<>>,
     res |-> NoFindings]

\* topovalidator.main from validate_semantics on
TopoValidatedRun(spec_, args_) ==
    LET res_ == TopoValidateSemantics(spec_)
        ok_ == Len(res_.errors) = 0
        out0 == [ok |-> ok_, errors |-> res_.errors, warnings |-> res_.warnings]
    IN  [out |-> IF IncludeAllowed(ok_, args_)
                 THEN [ok |-> ok_, errors |-> res_.errors, warnings |-> res_.warnings,
                       spec |-> TopoModelDump(spec_)]
                 ELSE out0,
         exit |-> IF ok_ THEN 0 ELSE 1,
         emitted |-> IF EmitAllowed(ok_, args_) THEN <<TopoModelDump(spec_)>> ELSE <<>>,
         topo_py |-> IF ok_ /\ args_.emit_topo # NoArg
                     THEN <<GenerateTopoPy(spec_)>> ELSE <<>>,
         validated |-> TRUE,
         spec |-> <<spec_>>,
         res |-> res_]

\* topovalidator.main: every exception of the load is printed as one error
TopoValidatorRun(cfg_, args_) ==
    IF cfg_.state # "ok" \/ cfg_.data.t # "obj"
    THEN TopoFailedRun(<<[exception |-> cfg_.state]>>)
    ELSE IF TopoSpecErrors(cfg_.data) # <<>>
    THEN TopoFailedRun(TopoErrorStrings(TopoSpecErrors(cfg_.data)))
    ELSE TopoValidatedRun(TopoSpecValue(cfg_.data), args_)

\* typed specifications and faults drawn for topovalidator
TopoNodes == {[id |-> i, role |-> "host", tx_dbm |-> None, rx_sensitivity_dbm |-> None] :
                 i \in NodeIds}
DefaultConstraints ==
    [loss_pkt |-> Some(0), throughput_mbps |-> None, mtu |-> Some(MtuDefault),
     delay_ms |-> Some(0)]
TopoLinks == {[node_id_a |-> "n1", node_id_b |-> b, constraints |-> DefaultConstraints] :
                 b \in NodeIds \ {"n1"}}
TopoTests ==
    {[name |-> "t", type |-> "pingall"]}
    \cup {[name |-> "t", type |-> "ping", src |-> "n1", dst |-> d,
           count |-> Some(PingDefault), deadline_s |-> Some(PingDefault)] : d \in NodeIds}
    \cup {[name |-> "t", type |-> "iperf_tcp", src |-> "n2", dst |-> "n1", duration_s |-> 10]}

MkTopoSpec(nodes, links, tests) ==
    [schemaVersion |-> "1.0",
     meta |-> [backend |-> "mininet", name |-> "run", duration_s |-> 10],
     topo |-> [nodes |-> nodes, links |-> links],
     tests |-> tests]

TopoBaseSpec ==
    MkTopoSpec(<<CHOOSE n \in TopoNodes : n.id = "n1", CHOOSE n \in TopoNodes : n.id = "n2">>,
               <<CHOOSE l \in TopoLinks : TRUE>>,
               <<CHOOSE t \in TopoTests : t.type = "ping" /\ t.dst = "n2">>)

TopoFaults ==
    <<[op |-> "set", path |-> <<"meta", "duration_s">>, value |-> JInt(0)],
      [op |-> "set", path |-> <<"topo", "links", 1, "node_id_b">>, value |-> JStr("n1")],
      [op |-> "set", path |-> <<"topo", "links", 1, "constraints", "mtu">>,
       value |-> JInt(MtuMin - 1)],
      [op |-> "set", path |-> <<"tests", 1, "type">>, value |-> JStr("iw")],
      [op |-> "del", path |-> <<"topo", "nodes">>, value |-> JNull]>>

TopoArgSets ==
    [emit_spec : {NoArg, <<"spec.json">>}, emit_topo : {NoArg, <<"topo.py">>},
     include_spec : BOOLEAN]

(***************************************************************************)
(* Spec: runs of main.  A run starts on a drawn config file and drawn      *)
(* flags; the file a run emitted can be given to a second run (round 2).   *)
(***************************************************************************)
FreshRun ==
    /\ pc = "start"
    /\ spec = <<>>
    /\ res = NoFindings
    /\ ok = FALSE
    /\ stdout = <<>>
    /\ exit_code = NoExit
    /\ emitted = <<>>
    /\ topo_py = <<>>
    /\ round = 1
    /\ first = <<>>
    /\ OthersIdle

\* the entities and settings of the well-formed files drawn for main
MainAPs == {a \in APs : a.id = "n1"}
MainTests ==
    {t \in TestMoves : t.node = "n1" /\ t.timeframe = 3}
    \cup {t \in TestMoves : t.node = "n2" /\ t.timeframe = 2}
    \cup TestIws
MainSettings == [backend : Backends, noise_th : NoiseValues, style : FileStyles]

\* an accepted specification that draws a warning of every code
AllWarningsSpec ==
    MkSpec("mininet", -29, <<>>,
           <<[id |-> "n1", position |-> PosOk]>>,
           <<[name |-> "t", type |-> "node movements", timeframe |-> 3, node |-> "n1",
              position |-> PosOk],
             [name |-> "t", type |-> "node movements", timeframe |-> 2, node |-> "n1",
              position |-> PosOk],
             [name |-> "t", type |-> "iw", cmd |-> CmdNoPlaceholder]>>)

\* the valid file with one required field of a test removed, or with the tag
\* of a test replaced by the other variant's or by an unknown one
TagProbes ==
    [op : {"del"}, path : {<<"tests", 1, key>> :
                              key \in {"name", "type", "timeframe", "node", "position"}},
     value : {JNull}]
    \cup [op : {"del"}, path : {<<"tests", 2, key>> : key \in {"name", "type", "cmd"}},
          value : {JNull}]
    \cup [op : {"set"}, path : {<<"tests", 1, "type">>}, value : {JStr("iw"), JStr("move")}]
    \cup [op : {"set"}, path : {<<"tests", 2, "type">>},
          value : {JStr("node movements"), JStr("IW")}]

\* the valid file with one number set at, above or below its bound
BoundaryProbes ==
    [path : {<<"meta", "duration_s">>}, value : {JInt(0), JInt(1)}]
    \cup [path : {<<"topo", "aps", 1, "channel">>}, value : {JInt(0), JInt(1)}]
    \cup [path : {<<"topo", "nets", "noise_th">>},
          value : {JInt(-31), JInt(-30), JInt(-29), JInt(-1), JInt(0), JInt(1)}]
    \cup [path : {<<"topo", "nets", "propagation_model", "exp">>},
          value : {JInt(-1), JInt(0), JInt(1)}]
    \cup [path : {<<"tests", 1, "timeframe">>}, value : {JInt(-1), JInt(0)}]

\* the config files drawn for inputvalidator
InputValidatorConfigs(c) ==
    \/ \E st \in {"missing", "unreadable", "bad_json"} : c = [state |-> st, data |-> JNull]
    \/ c = [state |-> "ok", data |-> JList(<<>>)]
    \/ \E m \in MainSettings, a \in SeqsUpTo(MainAPs, MaxMainEntities) :
         \E st \in SeqsUpTo(Stations, MaxMainEntities - Len(a)) :
           \E t \in SeqsUpTo(MainTests, MaxMainEntities - Len(a) - Len(st)) :
             c = [state |-> "ok",
                  data |-> ConfigData(MkSpec(m.backend, m.noise_th, a, st, t), m.style)]
    \/ \E style \in FileStyles : c = [state |-> "ok", data |-> ConfigData(AllWarningsSpec, style)]
    \/ \E p \in TagProbes :
         c = [state |-> "ok", data |-> ApplyFault(HandWritten(ModelDump(BaseSpec)), p)]
    \/ \E p \in BoundaryProbes :
         c = [state |-> "ok",
              data |-> SetIn(HandWritten(ModelDump(BaseSpec)), p.path, 1, p.value)]
    \/ \E model \in PropagationModels, s \in SValues,
          fs \in {x \in SUBSET (1..Len(Faults)) : Cardinality(x) <= MaxFaults} :
         c = [state |-> "ok",
              data |-> ApplyFaults(
                          WithPropagationModel(HandWritten(ModelDump(BaseSpec)), model, s),
                          Faults, fs, 1)]

InitInputValidator ==
    /\ prog = "inputvalidator"
    /\ InputValidatorConfigs(cfg)
    /\ args \in ArgSets
    /\ FreshRun

\* one run of inputvalidator.py's main, from parse_args to sys.exit
InputValidatorMain ==
    /\ prog = "inputvalidator"
    /\ pc = "start"
    /\ \E r \in {InputValidatorRun(cfg, args)} :
           /\ stdout' = Append(stdout, r.out)
           /\ exit_code' = r.exit
           /\ emitted' = r.emitted
           /\ topo_py' = <<>>
           /\ spec' = IF r.validated THEN r.spec[1] ELSE spec
           /\ res' = r.res
           /\ ok' = r.out.ok
    /\ pc' = "done"
    /\ UNCHANGED <<prog, cfg, args, round, first>>
    /\ UNCHANGED others

\* the emitted file is given to the program again, with the same flags
Refeed ==
    /\ pc = "done"
    /\ round = 1
    /\ emitted # <<>>
    /\ cfg' = [state |-> "ok", data |-> emitted[1]]
    /\ first' = <<[emitted |-> emitted[1], out |-> stdout[1]]>>
    /\ round' = 2
    /\ pc' = "start"
    /\ spec' = <<>>
    /\ res' = NoFindings
    /\ ok' = FALSE
    /\ stdout' = <<>>
    /\ exit_code' = NoExit
    /\ emitted' = <<>>
    /\ topo_py' = <<>>
    /\ UNCHANGED <<prog, args>>
    /\ UNCHANGED others

\* the config files drawn for topovalidator
TopoValidatorConfigs(c) ==
    \/ \E st \in {"missing", "unreadable", "bad_json"} : c = [state |-> st, data |-> JNull]
    \/ c = [state |-> "ok", data |-> JList(<<>>)]
    \/ \E style \in {"dumped", "hand"}, n \in SeqsUpTo(TopoNodes, MaxMainEntities) :
         \E l \in SeqsUpTo(TopoLinks, MaxMainEntities - Len(n)) :
           \E t \in SeqsUpTo(TopoTests, MaxMainEntities - Len(n) - Len(l)) :
             c = [state |-> "ok",
                  data |-> IF style = "dumped" THEN TopoModelDump(MkTopoSpec(n, l, t))
                           ELSE HandWritten(TopoModelDump(MkTopoSpec(n, l, t)))]
    \/ \E fs \in {x \in SUBSET (1..Len(TopoFaults)) : Cardinality(x) <= MaxFaults} :
         c = [state |-> "ok",
              data |-> ApplyFaults(HandWritten(TopoModelDump(TopoBaseSpec)), TopoFaults, fs, 1)]

InitTopoValidator ==
    /\ prog = "topovalidator"
    /\ TopoValidatorConfigs(cfg)
    /\ args \in TopoArgSets
    /\ FreshRun

\* one run of topovalidator.py's main, from parse_args to sys.exit
TopoValidatorMain ==
    /\ prog = "topovalidator"
    /\ pc = "start"
    /\ \E r \in {TopoValidatorRun(cfg, args)} :
           /\ stdout' = Append(stdout, r.out)
           /\ exit_code' = r.exit
           /\ emitted' = r.emitted
           /\ topo_py' = r.topo_py
           /\ spec' = IF r.validated THEN r.spec[1] ELSE spec
           /\ res' = r.res
           /\ ok' = r.out.ok
    /\ pc' = "done"
    /\ UNCHANGED <<prog, cfg, args, round, first>>
    /\ UNCHANGED others

Init == InitInputValidator \/ InitTopoValidator

Next == InputValidatorMain \/ TopoValidatorMain \/ Refeed

Spec == Init /\ [][Next]_vars

(***************************************************************************)
(* Properties of the runs of main (specification Spec).                    *)
(***************************************************************************)
\* the result the finished run printed
Printed == stdout[Len(stdout)]

Finished == pc = "done" /\ Len(stdout) = 1

\* C1: in every finished run of inputvalidator's and topovalidator's main
\* whose printed errors list is non-empty, nothing was written to the
\* --emit-spec file and the printed result has no spec key, whatever the flags
\* and whichever path (not found, load error, schema error, semantic error)
\* produced the errors.
C1_NoSpecWhenErrors ==
    (Finished /\ Printed.errors # <<>>) =>
        /\ emitted = <<>>
        /\ "spec" \notin DOMAIN Printed

\* a run that reached the emission code with both flags given and errors found
C1_Witness ==
    /\ Finished
    /\ prog = "inputvalidator"
    /\ spec # <<>>
    /\ Printed.errors # <<>>
    /\ args.emit_spec # NoArg
    /\ args.include_spec
    /\ emitted = <<>>

\* C2: in every result main prints, ok is true exactly when the errors list is
\* empty; the warnings validate_semantics found are printed in the result, and
\* a result with warnings and no errors has ok = true.
C2_OkIffNoErrors ==
    Finished =>
        /\ Printed.ok = (Printed.errors = <<>>)
        /\ Printed.ok = ok
        /\ (prog = "inputvalidator" /\ spec # <<>>) =>
              /\ Printed.warnings = ValidateSemantics(spec).warnings
              /\ (Printed.warnings # <<>> /\ Printed.errors = <<>>) => Printed.ok
              /\ exit_code = IF Printed.errors = <<>> THEN 0 ELSE 1

\* an accepted run that printed a warning of each of the four codes
C2_Witness ==
    /\ Finished
    /\ prog = "inputvalidator"
    /\ Printed.ok
    /\ \A code \in {"missing_placeholder", "non_monotonic_timeframe",
                    "backend_role_mismatch", "suspicious_noise_th"} :
          WithCode(Printed.warnings, code) # {}

\* the propagation_model entry of the loaded file, when the file has one
HasPropagationModel ==
    /\ cfg.state = "ok"
    /\ cfg.data.t = "obj"
    /\ HasKey(cfg.data, "topo")
    /\ Get(cfg.data, "topo").t = "obj"
    /\ HasKey(Get(cfg.data, "topo"), "nets")
    /\ Get(Get(cfg.data, "topo"), "nets").t = "obj"
    /\ HasKey(Get(Get(cfg.data, "topo"), "nets"), "propagation_model")
    /\ Get(Get(Get(cfg.data, "topo"), "nets"), "propagation_model").t = "obj"

LoadedPropagationModel == Get(Get(Get(cfg.data, "topo"), "nets"), "propagation_model")

\* model and exp of the entry are well-formed, s is absent, null or a number
WellFormedButS(pm) ==
    /\ HasKey(pm, "model")
    /\ Get(pm, "model") \in {JStr("logDistance"), JStr("logNormalShadowing")}
    /\ HasKey(pm, "exp")
    /\ Get(pm, "exp").t \in {"int", "float"}
    /\ Get(pm, "exp").n > 0
    /\ HasKey(pm, "s") => Get(pm, "s").t \in {"null", "int", "float"}

SMissingOrNotPositive(pm) ==
    \/ ~HasKey(pm, "s")
    \/ Get(pm, "s").t = "null"
    \/ Get(pm, "s").t \in {"int", "float"} /\ Get(pm, "s").n <= 0

PropagationModelFindings ==
    {k \in 1..Len(Printed.errors) :
        /\ "loc" \in DOMAIN Printed.errors[k]
        /\ Printed.errors[k].loc.base = "topo.nets.propagation_model"}

\* C7: for a loaded file whose propagation_model is well-formed apart from s,
\* the run reports a schema ("pydantic") error located at
\* topo.nets.propagation_model exactly when model is logNormalShadowing and s
\* is absent, null or <= 0; with s > 0, and with logDistance whatever s is,
\* no error is reported for the propagation model.
C7_SRequiredForShadowingOnly ==
    (Finished /\ prog = "inputvalidator" /\ HasPropagationModel
       /\ WellFormedButS(LoadedPropagationModel)) =>
        LET pm == LoadedPropagationModel
        IN  IF Get(pm, "model") = JStr("logNormalShadowing") /\ SMissingOrNotPositive(pm)
            THEN /\ ~Printed.ok
                 /\ emitted = <<>>
                 /\ \E k \in PropagationModelFindings :
                       /\ Printed.errors[k].code = "pydantic"
                       /\ Printed.errors[k].loc.idx = NoIdx
                       /\ Printed.errors[k].loc.attr = ""
            ELSE PropagationModelFindings = {}

\* logNormalShadowing with s = -1 was rejected
C7_Witness ==
    /\ Finished
    /\ prog = "inputvalidator"
    /\ HasPropagationModel
    /\ WellFormedButS(LoadedPropagationModel)
    /\ Get(LoadedPropagationModel, "model") = JStr("logNormalShadowing")
    /\ HasKey(LoadedPropagationModel, "s")
    /\ Get(LoadedPropagationModel, "s") = JInt(-1)
    /\ PropagationModelFindings # {}

\* the places of key among the pairs of a dict
KeyPlaces(obj, key) == {k \in 1..Len(obj.kids) : obj.kids[k][1] = key}

\* the hashed text holds no schema_hash entry and no digest
HashOfUnhashedSpec(tree) ==
    LET h == Get(Get(tree, "meta"), "schema_hash")
    IN  /\ h.t = "digest"
        /\ \A k \in 1..Len(h.h.sha256_of) :
              LET tok == h.h.sha256_of[k]
              IN  /\ tok # JStr("schema_hash")
                  /\ "t" \in DOMAIN tok => tok.t # "digest"

\* C10: when the canonical spec inputvalidator emitted (with its
\* meta.schema_hash) is validated again with the same flags, the second run
\* prints the same result and emits the same canonical spec: the same
\* schema_hash, present once in meta, computed from a text that holds neither a
\* schema_hash entry nor a digest.
C10_CanonicalizationIdempotent ==
    (prog = "inputvalidator" /\ pc = "done" /\ round = 2) =>
        /\ Printed = first[1].out
        /\ emitted = <<first[1].emitted>>
        /\ Cardinality(KeyPlaces(Get(emitted[1], "meta"), "schema_hash")) = 1
        /\ Get(Get(emitted[1], "meta"), "schema_hash")
              = Get(Get(first[1].emitted, "meta"), "schema_hash")
        /\ HashOfUnhashedSpec(emitted[1])

\* a second run on an emitted spec with access points, stations and tests
C10_Witness ==
    /\ prog = "inputvalidator"
    /\ pc = "done"
    /\ round = 2
    /\ emitted # <<>>
    /\ HasKey(Get(cfg.data, "meta"), "schema_hash")
    /\ Len(spec.tests) > 0
    /\ Len(spec.topo.stations) > 0
    /\ args.include_spec

(***************************************************************************)
(* SpecPos: the position parser applied to drawn strings.  Every string    *)
(* over PosAlphabet up to MaxPosLen characters is drawn, and longer ones   *)
(* put together from numbers, separators and padding.                      *)
(***************************************************************************)
MaxPosLen == 5

PosAlphabet == {"1", "-", ".", ",", " ", "e"}

Chars1 == <<"1">>
CharsNeg1_5 == <<"-", "1", ".", "5">>
Chars0 == <<"0">>
Chars10_25 == <<"1", "0", ".", "2", "5">>

\* "1,2,3"   "-1.5, 0, 10.25"   "1,2"   "a,b,c"   "1,2,3,4"
Pos123 == <<"1", ",", "2", ",", "3">>
PosNegFrac == CharsNeg1_5 \o <<",", " ">> \o Chars0 \o <<",", " ">> \o Chars10_25
PosTwo == <<"1", ",", "2">>
PosLetters == <<"a", ",", "b", ",", "c">>
PosFour == <<"1", ",", "2", ",", "3", ",", "4">>

NamedPositions == {Pos123, PosNegFrac, PosTwo, PosLetters, PosFour}

NumberTexts == {Chars1, CharsNeg1_5, Chars10_25, <<"1", "e", "3">>, <<"+", "1">>, <<"1", ".">>}
Separators == {<<",">>, <<" ", ",", "\t">>}
Paddings == {<<>>, <<" ", "\n">>}

\* three texts joined by one separator, with the same padding at both ends
JoinedPositions ==
    {pad \o a \o sep \o b \o sep \o c \o pad :
        a \in NumberTexts, b \in {Chars0, <<"-">>}, c \in NumberTexts,
        sep \in Separators, pad \in Paddings}

DrawnPositions ==
    SeqsUpTo(PosAlphabet, MaxPosLen) \cup NamedPositions \cup JoinedPositions

InitPos ==
    /\ prog = "position"
    /\ pc = "start"
    /\ cfg = NoConfig
    /\ args = NoArgs
    /\ \E v \in DrawnPositions :
          spec = MkSpec("mininet-wifi", -91, <<>>, <<[id |-> "n1", position |-> v]>>, <<>>)
    /\ res = NoFindings
    /\ ok = FALSE
    /\ stdout = <<>>
    /\ exit_code = NoExit
    /\ emitted = <<>>
    /\ topo_py = <<>>
    /\ round = 1
    /\ first = <<>>
    /\ OthersIdle

\* the specification whose only node is an access point at position v
SpecWithApAt(v) ==
    MkSpec("mininet-wifi", -91,
           <<[id |-> "n2", mode |-> "g", channel |-> 6, ssid |-> "net", position |-> v]>>,
           <<>>, <<>>)

\* the three uses of the parser on the station's position: the schema layer's
\* _validate_position_str, _positions_tuple, and validate_semantics' check
ParsePosition ==
    /\ prog = "position"
    /\ pc = "start"
    /\ pc' = "done"
    /\ LET v == spec.topo.stations[1].position
       IN  stdout' = <<[validate_raises |-> ValidatePositionStrRaises(v),
                        tuple |-> IF PositionsTupleRaises(v) THEN <<>>
                                  ELSE <<PositionsTuple(v)>>,
                        as_ap |-> ValidateSemantics(SpecWithApAt(v))]>>
    /\ res' = ValidateSemantics(spec)
    /\ ok' = MainOk(res')
    /\ UNCHANGED <<prog, cfg, args, spec, exit_code, emitted, topo_py, round, first>>
    /\ UNCHANGED others

NextPos == ParsePosition

SpecPos == InitPos /\ [][NextPos]_vars

\* the grammar, stated on the text: the pieces between the commas
CommaPlaces(v) == {k \in 1..Len(v) : v[k] = ","}

\* the n-th of the pieces the commas cut v into
Piece(v, n) ==
    LET cuts == CommaPlaces(v)
        before == {k \in cuts : Cardinality({j \in cuts : j < k}) = n - 2}
        after == {k \in cuts : Cardinality({j \in cuts : j < k}) = n - 1}
        lo == IF before = {} THEN 1 ELSE (CHOOSE k \in before : TRUE) + 1
        hi == IF after = {} THEN Len(v) ELSE (CHOOSE k \in after : TRUE) - 1
    IN  SubSeq(v, lo, hi)

\* an optional '-', digits, and optionally a '.' followed by digits
IsDecimalNumber(t) ==
    LET body == IF t # <<>> /\ t[1] = "-" THEN Tail(t) ELSE t
        dots == {k \in 1..Len(body) : body[k] = "."}
    IN  /\ body # <<>>
        /\ \A k \in 1..Len(body) : body[k] \in Digits \cup {"."}
        /\ Cardinality(dots) <= 1
        /\ \A d \in dots : d > 1 /\ d < Len(body)

IsPosition(v) ==
    /\ Cardinality(CommaPlaces(v)) = 2
    /\ \A n \in 1..3 : IsDecimalNumber(Strip(Piece(v, n)))

ParsedPosition == spec.topo.stations[1].position

\* C8: the parser accepts exactly the strings made of three decimal numbers
\* (an optional '-', digits, an optional fraction; no exponent) separated by
\* commas, with whitespace allowed around the commas and at the ends.  An
\* accepted string yields the values of its three numbers ("1,2,3" gives 1, 2, 3
\* and "-1.5, 0, 10.25" gives -1.5, 0, 10.25); a string outside the grammar
\* ("1,2", "a,b,c", "1,2,3,4") makes _validate_position_str and
\* _positions_tuple raise, and validate_semantics reports exactly one
\* bad_position error at the entity's position.
C8_PositionGrammar ==
    (prog = "position" /\ pc = "done") =>
        LET v == ParsedPosition
            bad == FindingsAt(res.errors, "bad_position", "topo.stations", 0, "position")
        IN  /\ stdout[1].validate_raises = ~IsPosition(v)
            /\ (stdout[1].tuple = <<>>) = ~IsPosition(v)
            /\ IsPosition(v) =>
                  /\ stdout[1].tuple[1] = [n \in 1..3 |-> Float(Strip(Piece(v, n)))]
                  /\ WithCode(res.errors, "bad_position") = {}
            /\ ~IsPosition(v) =>
                  /\ Cardinality(bad) = 1
                  /\ WithCode(res.errors, "bad_position") = bad
                  /\ ~ok
            /\ v = Pos123 =>
                  stdout[1].tuple = <<<<[num |-> 1, den |-> 1], [num |-> 2, den |-> 1],
                                        [num |-> 3, den |-> 1]>>>>
            /\ v = PosNegFrac =>
                  stdout[1].tuple = <<<<[num |-> -15, den |-> 10], [num |-> 0, den |-> 1],
                                        [num |-> 1025, den |-> 100]>>>>
            /\ v \in {PosTwo, PosLetters, PosFour} => stdout[1].tuple = <<>>

\* "-1.5, 0, 10.25" was parsed
C8_Witness ==
    /\ prog = "position"
    /\ pc = "done"
    /\ ParsedPosition = PosNegFrac
    /\ stdout[1].tuple # <<>>

(***************************************************************************)
(* SpecHash: _spec_hash, and main's normalization (lines 330-333), applied *)
(* to a drawn spec dict and to a copy whose keys are in another order.     *)
(***************************************************************************)
MaxHashEntities == 2     \* access points + stations + tests of a hashed spec

\* where the keys are reordered, and how
KeyOrders == [where : {"all", "top", "nested"}, how : {"reverse", "rotate"}]

\* the place the k-th pair of the reordered dict is taken from, of n pairs
PermIndex(how, k, n) == IF how = "reverse" THEN n + 1 - k ELSE (k % n) + 1

\* v with the pairs of its dicts in another order: the same keys and values
RECURSIVE Permuted(_, _, _)
Permuted(v, m, depth) ==
    CASE v.t = "obj" ->
            LET n == Len(v.kids)
                on == \/ m.where = "all"
                      \/ m.where = "top" /\ depth = 0
                      \/ m.where = "nested" /\ depth > 0
            IN  JObj([k \in 1..n |->
                        LET j == IF on THEN PermIndex(m.how, k, n) ELSE k
                        IN  <<v.kids[j][1], Permuted(v.kids[j][2], m, depth + 1)>>])
      [] v.t = "list" ->
            JList([k \in 1..Len(v.items) |-> Permuted(v.items[k], m, depth + 1)])
      [] OTHER -> v

InitHash ==
    /\ prog = "_spec_hash"
    /\ pc = "start"
    /\ \E b \in Backends, n \in NoiseValues, m \in KeyOrders,
          a \in SeqsUpTo(MainAPs, MaxHashEntities) :
         \E st \in SeqsUpTo(Stations, MaxHashEntities - Len(a)) :
           \E t \in SeqsUpTo(MainTests, MaxHashEntities - Len(a) - Len(st)) :
             cfg = [state |-> "ok",
                    data |-> ModelDump(MkSpec(b, n, a, st, t)),
                    permuted |-> Permuted(ModelDump(MkSpec(b, n, a, st, t)), m, 0)]
    /\ args = NoArgs
    /\ spec = <<>>
    /\ res = NoFindings
    /\ ok = FALSE
    /\ stdout = <<>>
    /\ exit_code = NoExit
    /\ emitted = <<>>
    /\ topo_py = <<>>
    /\ round = 1
    /\ first = <<>>
    /\ OthersIdle

\* _spec_hash of the dict (twice) and of its reordered copy, and the
\* normalized spec main builds from each of the two as a loaded file
ComputeSpecHash ==
    /\ prog = "_spec_hash"
    /\ pc = "start"
    /\ pc' = "done"
    /\ stdout' = <<[raw |-> Dumps(cfg.data, TRUE),
                    hash |-> SpecHash(cfg.data),
                    again |-> SpecHash(cfg.data),
                    permuted_raw |-> Dumps(cfg.permuted, TRUE),
                    permuted_hash |-> SpecHash(cfg.permuted),
                    norm |-> Normalize(cfg.data, SpecValue(cfg.data)),
                    permuted_norm |-> Normalize(cfg.permuted, SpecValue(cfg.permuted))]>>
    /\ UNCHANGED <<prog, cfg, args, spec, res, ok, exit_code, emitted, topo_py, round, first>>
    /\ UNCHANGED others

NextHash == ComputeSpecHash

SpecHashing == InitHash /\ [][NextHash]_vars

\* C9: _spec_hash computed twice on a spec dict gives the same value; for a
\* copy of the dict that differs only in the order of the keys (at the top
\* level, in the nested dicts, or both) the sorted-keys encoding and the
\* fingerprint are the same, and so is the normalized spec main builds.
C9_FingerprintDeterministic ==
    (prog = "_spec_hash" /\ pc = "done") =>
        /\ stdout[1].again = stdout[1].hash
        /\ stdout[1].permuted_raw = stdout[1].raw
        /\ stdout[1].permuted_hash = stdout[1].hash
        /\ stdout[1].permuted_norm = stdout[1].norm
        /\ stdout[1].hash.hex_chars = HashHexLen

\* the copy has its nested keys in another order, which an encoding that
\* keeps the order of the keys shows
C9_Witness ==
    /\ prog = "_spec_hash"
    /\ pc = "done"
    /\ cfg.permuted # cfg.data
    /\ Get(cfg.permuted, "meta") # Get(cfg.data, "meta")
    /\ Dumps(cfg.permuted, FALSE) # Dumps(cfg.data, FALSE)
    /\ stdout[1].permuted_hash = stdout[1].hash

(***************************************************************************)
(* Properties of the fingerprint main attaches (specification Spec).       *)
(***************************************************************************)
\* the canonical specs a finished run made visible: the emitted file and the
\* spec key of the printed result
VisibleSpecs ==
    (IF emitted # <<>> THEN {emitted[1]} ELSE {})
    \cup (IF "spec" \in DOMAIN Printed THEN {Printed.spec} ELSE {})

\* tree without its meta.schema_hash entry
WithoutHash(tree) == DelIn(tree, <<"meta", "schema_hash">>, 1)

\* C11: in every canonical spec inputvalidator's main emits or prints,
\* meta.schema_hash is the first 12 hex characters of the SHA-256 digest of
\* the key-sorted encoding of that spec without the schema_hash entry, and the
\* hashed text holds no schema_hash key, even when the loaded file carried one.
C11_HashBeforeAttach ==
    (Finished /\ prog = "inputvalidator") =>
        \A tree \in VisibleSpecs :
            LET h == Get(Get(tree, "meta"), "schema_hash")
            IN  /\ h.t = "digest"
                /\ h.h.hex_chars = 12
                /\ h.h.sha256_of = Dumps(WithoutHash(tree), TRUE)
                /\ \A k \in 1..Len(h.h.sha256_of) :
                      h.h.sha256_of[k] # JStr("schema_hash")
                /\ WithoutHash(tree) = ModelDump(spec)

\* a run on a file that carried a schema_hash emitted and printed the spec
C11_Witness ==
    /\ Finished
    /\ prog = "inputvalidator"
    /\ round = 1
    /\ emitted # <<>>
    /\ "spec" \in DOMAIN Printed
    /\ HasKey(Get(cfg.data, "meta"), "schema_hash")
    /\ Len(spec.tests) > 0

(***************************************************************************)
(* SpecUnion: validate_semantics applied to specifications in which the    *)
(* cause of each finding is present or absent independently of the others. *)
(***************************************************************************)
NoiseProbes == {-91, -31, -30, -29, 0}

\* one access point, one station, three Moves and a diagnostic command; each
\* flag plants the cause of one finding; with twice, a second access point and
\* a second station carry the same causes
UnionSpec(b, n, dup, appos, chan, stapos, unknown, nonmono, noplace, twice) ==
    MkSpec(b, n,
           <<[id |-> IF dup THEN "n1" ELSE "n2", mode |-> "a",
              channel |-> IF chan THEN 0 ELSE 36, ssid |-> "net",
              position |-> IF appos THEN PosBad ELSE PosOk]>>
           \o (IF twice
               THEN <<[id |-> "n4", mode |-> "a", channel |-> IF chan THEN 0 ELSE 36,
                       ssid |-> "net", position |-> IF appos THEN PosBad ELSE PosOk]>>
               ELSE <<>>),
           <<[id |-> "n1", position |-> IF stapos THEN PosBad ELSE PosOk]>>
           \o (IF twice
               THEN <<[id |-> "n5", position |-> IF stapos THEN PosBad ELSE PosOk]>>
               ELSE <<>>),
           <<[name |-> "t", type |-> "node movements", timeframe |-> 3, node |-> "n1",
              position |-> PosOk],
             [name |-> "t", type |-> "node movements",
              timeframe |-> IF nonmono THEN 2 ELSE 5, node |-> "n1", position |-> PosOk],
             [name |-> "t", type |-> "node movements", timeframe |-> 5,
              node |-> IF unknown THEN "n3" ELSE "n1", position |-> PosOk],
             [name |-> "t", type |-> "iw",
              cmd |-> IF noplace THEN CmdNoPlaceholder ELSE CmdWithPlaceholder]>>)

InitUnion ==
    /\ prog = "validate_semantics"
    /\ pc = "start"
    /\ cfg = NoConfig
    /\ args = NoArgs
    /\ stdout = <<>>
    /\ exit_code = NoExit
    /\ emitted = <<>>
    /\ topo_py = <<>>
    /\ round = 1
    /\ first = <<>>
    /\ OthersIdle
    /\ \E b \in Backends, n \in NoiseProbes,
          dup \in BOOLEAN, appos \in BOOLEAN, chan \in BOOLEAN, stapos \in BOOLEAN,
          unknown \in BOOLEAN, nonmono \in BOOLEAN, noplace \in BOOLEAN,
          twice \in BOOLEAN :
         spec = UnionSpec(b, n, dup, appos, chan, stapos, unknown, nonmono, noplace, twice)
    /\ res = NoFindings
    /\ ok = FALSE

SpecUnion == InitUnion /\ [][NextSem]_vars

Loc(base, idx, attr) == [base |-> base, idx |-> idx, attr |-> attr]

\* what each check reports on its own, stated on the specification
ExpectedErrors ==
    (IF HasRepeatedId
     THEN {[code |-> "duplicate_id", loc |-> Loc("topo.[aps|stations].id", NoIdx, "")]}
     ELSE {})
    \cup {[code |-> "bad_position", loc |-> Loc("topo.aps", k - 1, "position")] :
             k \in {j \in 1..Len(spec.topo.aps) : ~IsPosition(spec.topo.aps[j].position)}}
    \cup {[code |-> "bad_channel", loc |-> Loc("topo.aps", k - 1, "channel")] :
             k \in {j \in 1..Len(spec.topo.aps) :
                       spec.topo.aps[j].mode = "a" /\ spec.topo.aps[j].channel < 1}}
    \cup {[code |-> "bad_position", loc |-> Loc("topo.stations", k - 1, "position")] :
             k \in {j \in 1..Len(spec.topo.stations) :
                       ~IsPosition(spec.topo.stations[j].position)}}
    \cup {[code |-> "unknown_station", loc |-> Loc("tests", k - 1, "node")] :
             k \in {j \in 1..Len(spec.tests) :
                       IsMove(spec.tests[j]) /\ ~DeclaredStation(spec.tests[j].node)}}

ExpectedWarnings ==
    {[code |-> "non_monotonic_timeframe", loc |-> Loc("tests", k - 1, "timeframe")] :
        k \in {j \in 1..Len(spec.tests) : IsMove(spec.tests[j]) /\ EarlierGreater(j)}}
    \cup {[code |-> "missing_placeholder", loc |-> Loc("tests", k - 1, "cmd")] :
             k \in {j \in 1..Len(spec.tests) :
                       IsIw(spec.tests[j]) /\ ~HasInterfaceToken(spec.tests[j].cmd)}}
    \cup (IF spec.meta.backend = "mininet"
             /\ Len(spec.topo.aps) + Len(spec.topo.stations) > 0
          THEN {[code |-> "backend_role_mismatch", loc |-> Loc("meta.backend", NoIdx, "")]}
          ELSE {})
    \cup (IF spec.topo.nets.noise_th > -30
          THEN {[code |-> "suspicious_noise_th",
                 loc |-> Loc("topo.nets.noise_th", NoIdx, "")]}
          ELSE {})

\* the code and location of the records of a findings list
CodesAndLocs(list) == {[code |-> list[k].code, loc |-> list[k].loc] : k \in 1..Len(list)}

\* C12: the findings of one call of validate_semantics are the union of what
\* each check reports on its own: every expected record is present exactly
\* once and nothing else is, whatever other errors and warnings the same
\* specification draws.
C12_FindingsAreUnion ==
    (prog = "validate_semantics" /\ pc = "done") =>
        /\ CodesAndLocs(res.errors) = ExpectedErrors
        /\ Len(res.errors) = Cardinality(ExpectedErrors)
        /\ CodesAndLocs(res.warnings) = ExpectedWarnings
        /\ Len(res.warnings) = Cardinality(ExpectedWarnings)

\* a call that reported every error code and every warning code at once
C12_Witness ==
    /\ prog = "validate_semantics"
    /\ pc = "done"
    /\ \A code \in {"duplicate_id", "bad_position", "bad_channel", "unknown_station"} :
          WithCode(res.errors, code) # {}
    /\ \A code \in {"missing_placeholder", "non_monotonic_timeframe",
                    "backend_role_mismatch", "suspicious_noise_th"} :
          WithCode(res.warnings, code) # {}
    /\ Cardinality(WithCode(res.errors, "bad_position")) = 2

(***************************************************************************)
(* C13: schema validation collects every violated field constraint.        *)
(***************************************************************************)
\* obj[key] is a number that op and bound reject
NumberOutside(obj, key, op, bound) ==
    /\ HasKey(obj, key)
    /\ Get(obj, key).t \in {"int", "float"}
    /\ ~BoundOk(op, bound, Get(obj, key).n)

\* obj[key] is a position string that the grammar rejects
PositionOutside(obj, key) ==
    /\ HasKey(obj, key)
    /\ Get(obj, key).t = "str"
    /\ ~IsPosition(Get(obj, key).cs)

\* the type tag of an item of tests, null when it has none
TagOf(t) == IF HasKey(t, "type") THEN Get(t, "type") ELSE JNull

\* the items of the list obj[key], none when the key is absent
ItemsOf(obj, key) == IF HasKey(obj, key) THEN Get(obj, key).items ELSE <<>>

\* the places of the plain field constraints that the loaded file violates
ViolatedFields ==
    LET meta == Get(cfg.data, "meta")
        topo == Get(cfg.data, "topo")
        nets == Get(topo, "nets")
        pm == Get(nets, "propagation_model")
        aps == ItemsOf(topo, "aps")
        stations == ItemsOf(topo, "stations")
    IN  (IF NumberOutside(meta, "duration_s", "gt", 0)
         THEN {Loc("meta", NoIdx, "duration_s")} ELSE {})
        \cup (IF Get(meta, "backend") \notin {JStr("mininet"), JStr("mininet-wifi")}
              THEN {Loc("meta", NoIdx, "backend")} ELSE {})
        \cup (IF NumberOutside(nets, "noise_th", "le", 0)
              THEN {Loc("topo.nets", NoIdx, "noise_th")} ELSE {})
        \cup (IF NumberOutside(pm, "exp", "gt", 0)
              THEN {Loc("topo.nets.propagation_model", NoIdx, "exp")} ELSE {})
        \cup {Loc("topo.aps", k - 1, "channel") :
                 k \in {j \in 1..Len(aps) : NumberOutside(aps[j], "channel", "gt", 0)}}
        \cup {Loc("topo.aps", k - 1, "position") :
                 k \in {j \in 1..Len(aps) : PositionOutside(aps[j], "position")}}
        \cup {Loc("topo.stations", k - 1, "position") :
                 k \in {j \in 1..Len(stations) : PositionOutside(stations[j], "position")}}

\* the conditional requirement of s, which is reported at the model itself
ViolatedConditional ==
    LET pm == LoadedPropagationModel
    IN  IF Get(pm, "model") = JStr("logNormalShadowing") /\ SMissingOrNotPositive(pm)
        THEN {Loc("topo.nets.propagation_model", NoIdx, "")}
        ELSE {}

\* the 0-based places of the tests that fit neither variant
ViolatingTests ==
    LET tests == ItemsOf(cfg.data, "tests")
    IN  {j - 1 : j \in {k \in 1..Len(tests) :
            \/ TagOf(tests[k]) \notin {JStr("node movements"), JStr("iw")}
            \/ /\ TagOf(tests[k]) = JStr("node movements")
               /\ \/ ~HasKey(tests[k], "timeframe")
                  \/ NumberOutside(tests[k], "timeframe", "ge", 0)}}

SeveralViolations ==
    Cardinality(ViolatedFields) + Cardinality(ViolatedConditional)
        + Cardinality(ViolatingTests) > 1

SchemaErrorAt(l) ==
    \E k \in 1..Len(Printed.errors) :
        Printed.errors[k].code = "pydantic" /\ Printed.errors[k].loc = l

\* C13: when the loaded file violates several field constraints, the run
\* prints ok = false and its errors hold a schema error for each violated
\* constraint, at the place of the field (for a test, at the place of the
\* item, whichever variant the path names; for the conditional requirement of
\* s, at the propagation model).
C13_SchemaExhaustive ==
    (Finished /\ prog = "inputvalidator" /\ HasPropagationModel /\ SeveralViolations) =>
        /\ ~Printed.ok
        /\ \A l \in ViolatedFields \cup ViolatedConditional : SchemaErrorAt(l)
        /\ \A i \in ViolatingTests :
              \E k \in 1..Len(Printed.errors) :
                  /\ Printed.errors[k].code = "pydantic"
                  /\ Printed.errors[k].loc.base = "tests"
                  /\ Printed.errors[k].loc.idx = i

\* a run on a file with exp = 0 and a shadowing model without s: the error of
\* exp is printed, the one of s is not
C13_Witness ==
    /\ Finished /\ prog = "inputvalidator" /\ HasPropagationModel
    /\ Loc("topo.nets.propagation_model", NoIdx, "exp") \in ViolatedFields
    /\ ViolatedConditional # {}
    /\ ~HasKey(LoadedPropagationModel, "s")
    /\ SchemaErrorAt(Loc("topo.nets.propagation_model", NoIdx, "exp"))
    /\ ~SchemaErrorAt(Loc("topo.nets.propagation_model", NoIdx, ""))

(***************************************************************************)
(* C14: a config file that cannot be loaded as a tree.                     *)
(***************************************************************************)
\* the file is missing, unreadable, not JSON, or its root is not an object
NotLoadable == cfg.state # "ok" \/ cfg.data.t # "obj"

SchemaAndSemanticCodes ==
    {"pydantic", "duplicate_id", "bad_position", "bad_channel", "unknown_station",
     "missing_placeholder", "non_monotonic_timeframe", "backend_role_mismatch",
     "suspicious_noise_th"}

\* C14: a run of inputvalidator's main on a file that is missing, unreadable,
\* not JSON or whose root is not an object prints ok = false, no warnings and
\* exactly one error; the error names the input as a whole ("config" for a
\* missing file, "root" otherwise; no index, no field) and its code is none
\* of the schema and semantic codes; no typed spec was built, no semantic
\* finding was computed, nothing was hashed, written or included.
C14_LoadFailureIsOneRootError ==
    (Finished /\ prog = "inputvalidator" /\ round = 1 /\ NotLoadable) =>
        /\ ~Printed.ok
        /\ exit_code = 1
        /\ Printed.warnings = <<>>
        /\ Len(Printed.errors) = 1
        /\ Printed.errors[1].loc =
              Loc(IF cfg.state = "missing" THEN "config" ELSE "root", NoIdx, "")
        /\ Printed.errors[1].code \notin SchemaAndSemanticCodes
        /\ Printed.errors[1].code =
              (IF cfg.state = "missing" THEN "not_found" ELSE "load_error")
        /\ spec = <<>>
        /\ res = NoFindings
        /\ emitted = <<>>
        /\ "spec" \notin DOMAIN Printed

\* a finished run on a JSON file whose root is a list, with both flags given
C14_Witness ==
    /\ Finished /\ prog = "inputvalidator" /\ round = 1
    /\ cfg.state = "ok"
    /\ cfg.data.t = "list"
    /\ args.emit_spec # NoArg
    /\ args.include_spec
    /\ Len(Printed.errors) = 1
    /\ Printed.errors[1].code = "load_error"

(***************************************************************************)
(* C15: the result of a successful run.                                    *)
(***************************************************************************)
Successful == Finished /\ prog = "inputvalidator" /\ Printed.errors = <<>>

\* norm as main builds it from the validated spec
CanonicalSpec == AttachHash(ModelDump(spec), SpecHash(ModelDump(spec)))

C16_BackendRoleMismatch ==
    (prog = "validate_semantics" /\ pc = "done") =>
        LET expected == /\ spec.meta.backend = "mininet"
                        /\ Len(spec.topo.aps) + Len(spec.topo.stations) >= 1
            found == WithCode(res.warnings, "backend_role_mismatch")
        IN  /\ Cardinality(found) = (IF expected THEN 1 ELSE 0)
            /\ found = FindingsAt(res.warnings, "backend_role_mismatch",
                                  "meta.backend", NoIdx, "")
            /\ WithCode(res.errors, "backend_role_mismatch") = {}

\* a "mininet" specification with stations and no access point, warned once
C16_Witness ==
    /\ prog = "validate_semantics"
    /\ pc = "done"
    /\ spec.meta.backend = "mininet"
    /\ spec.topo.aps = <<>>
    /\ Len(spec.topo.stations) = 2
    /\ Cardinality(WithCode(res.warnings, "backend_role_mismatch")) = 1

(***************************************************************************)
(* C17, C18: the numeric bounds. The files drawn for main include          *)
(* BoundaryProbes: the valid file with one number set at, above or below   *)
(* its bound.                                                              *)
(***************************************************************************)
\* the numbers of the loaded file, where the file has them
LoadedNets == Get(Get(cfg.data, "topo"), "nets")
LoadedNoise == Get(LoadedNets, "noise_th")
HasNoise ==
    /\ HasPropagationModel
    /\ HasKey(LoadedNets, "noise_th")
    /\ LoadedNoise.t \in {"int", "float"}

NoiseWarnings == WithCode(Printed.warnings, "suspicious_noise_th")

\* C17: in a run of main on a file with a noise threshold n, n > 0 is rejected
\* by the schema (an error at topo.nets.noise_th, no warnings); when the file
\* is accepted by the schema, the warnings hold exactly one
\* suspicious_noise_th, located at topo.nets.noise_th and carrying n, if
\* -30 < n <= 0, and none if n <= -30: -30 itself does not warn.
C17_NoiseWarningRange ==
    (Finished /\ prog = "inputvalidator" /\ HasNoise) =>
        LET n == LoadedNoise.n
        IN  /\ SchemaErrorAt(Loc("topo.nets", NoIdx, "noise_th")) = (n > 0)
            /\ n > 0 => Printed.warnings = <<>> /\ ~Printed.ok
            /\ (n <= 0 /\ spec # <<>>) =>
                  /\ spec.topo.nets.noise_th = n
                  /\ Cardinality(NoiseWarnings) = (IF n > -30 THEN 1 ELSE 0)
                  /\ NoiseWarnings = FindingsAt(Printed.warnings, "suspicious_noise_th",
                                                "topo.nets.noise_th", NoIdx, "")
                  /\ \A k \in NoiseWarnings : Printed.warnings[k].msg.n1 = n
                  /\ WithCode(Printed.errors, "suspicious_noise_th") = {}

\* a successful run on a file with noise_th = 0, warned once
C17_Witness ==
    /\ Finished /\ prog = "inputvalidator" /\ HasNoise
    /\ LoadedNoise.n = 0
    /\ Printed.ok
    /\ Cardinality(NoiseWarnings) = 1

\* obj[key] when it is a number
IsNumber(obj, key) == HasKey(obj, key) /\ Get(obj, key).t \in {"int", "float"}

\* the Moves of the loaded file that have a numeric timeframe (1-based places)
LoadedMoves ==
    LET tests == ItemsOf(cfg.data, "tests")
    IN  {k \in 1..Len(tests) :
            TagOf(tests[k]) = JStr("node movements") /\ IsNumber(tests[k], "timeframe")}

\* C18: the schema bounds are strict or inclusive as declared. In a run of
\* main on a loaded file, duration_s is rejected exactly when <= 0 (0 is
\* rejected), an access point's channel exactly when <= 0 (0 is rejected),
\* noise_th exactly when > 0 (0 is accepted), exp exactly when <= 0, and a
\* Move's timeframe exactly when < 0 (0 is accepted); each rejection is an
\* error at the field, and the run has ok = false.
C18_BoundStrictness ==
    (Finished /\ prog = "inputvalidator" /\ HasPropagationModel) =>
        LET meta == Get(cfg.data, "meta")
            pm == LoadedPropagationModel
            aps == ItemsOf(Get(cfg.data, "topo"), "aps")
            tests == ItemsOf(cfg.data, "tests")
        IN  /\ IsNumber(meta, "duration_s") =>
                  SchemaErrorAt(Loc("meta", NoIdx, "duration_s"))
                      = (Get(meta, "duration_s").n <= 0)
            /\ \A k \in 1..Len(aps) :
                  IsNumber(aps[k], "channel") =>
                      SchemaErrorAt(Loc("topo.aps", k - 1, "channel"))
                          = (Get(aps[k], "channel").n <= 0)
            /\ IsNumber(LoadedNets, "noise_th") =>
                  SchemaErrorAt(Loc("topo.nets", NoIdx, "noise_th")) = (LoadedNoise.n > 0)
            /\ IsNumber(pm, "exp") =>
                  SchemaErrorAt(Loc("topo.nets.propagation_model", NoIdx, "exp"))
                      = (Get(pm, "exp").n <= 0)
            /\ \A k \in LoadedMoves :
                  SchemaErrorAt(Loc("tests", k - 1, "TestMove.timeframe"))
                      = (Get(tests[k], "timeframe").n < 0)
            /\ (\E k \in 1..Len(Printed.errors) : Printed.errors[k].code = "pydantic")
                  => ~Printed.ok /\ spec = <<>>

\* an accepted file whose first test is a Move at timeframe 0
C18_Witness ==
    /\ Finished /\ prog = "inputvalidator" /\ HasPropagationModel /\ round = 1
    /\ 1 \in LoadedMoves
    /\ Get(ItemsOf(cfg.data, "tests")[1], "timeframe").n = 0
    /\ spec # <<>>
    /\ Printed.ok

(***************************************************************************)
(* C19: the tests are classified by their type tag.                        *)
(***************************************************************************)
HasAll(t, keys) == \A key \in keys : HasKey(t, key)

\* the item has the tag and the required fields of a Move / of a command
MoveShaped(t) ==
    /\ HasAll(t, {"name", "type", "timeframe", "node", "position"})
    /\ Get(t, "type") = JStr("node movements")
IwShaped(t) ==
    /\ HasAll(t, {"name", "type", "cmd"})
    /\ Get(t, "type") = JStr("iw")

\* the 1-based places of the tests whose tag is unknown or absent, or whose
\* tag is known and some required field of that variant is absent
MisfitTests ==
    LET tests == ItemsOf(cfg.data, "tests")
    IN  {k \in 1..Len(tests) : ~MoveShaped(tests[k]) /\ ~IwShaped(tests[k])}

\* C19: in a run of main on a loaded file, a test whose tag is unknown, or
\* known with a required field missing, is reported as a schema error at that
\* test, and then no typed spec is built and validate_semantics is not run;
\* in a file the schema accepts, each test became exactly one variant, the
\* one its tag names, with the fields of that variant.
C19_TestsClassifiedByTag ==
    (Finished /\ prog = "inputvalidator" /\ HasPropagationModel /\ round = 1) =>
        LET tests == ItemsOf(cfg.data, "tests")
        IN  /\ \A k \in MisfitTests :
                  \E e \in 1..Len(Printed.errors) :
                      /\ Printed.errors[e].code = "pydantic"
                      /\ Printed.errors[e].loc.base = "tests"
                      /\ Printed.errors[e].loc.idx = k - 1
            /\ MisfitTests # {} =>
                  /\ ~Printed.ok
                  /\ \A e \in 1..Len(Printed.errors) : Printed.errors[e].code = "pydantic"
                  /\ spec = <<>>
                  /\ res = NoFindings
                  /\ emitted = <<>>
            /\ spec # <<>> =>
                  /\ Len(spec.tests) = Len(tests)
                  /\ \A k \in 1..Len(tests) :
                        /\ IsMove(spec.tests[k]) # IsIw(spec.tests[k])
                        /\ IsMove(spec.tests[k]) = MoveShaped(tests[k])
                        /\ IsIw(spec.tests[k]) = IwShaped(tests[k])
                        /\ DOMAIN spec.tests[k] =
                              (IF MoveShaped(tests[k])
                               THEN {"name", "type", "timeframe", "node", "position"}
                               ELSE {"name", "type", "cmd"})

\* a rejected file whose first test is a Move without timeframe and whose
\* second test is valid
C19_Witness ==
    /\ Finished /\ prog = "inputvalidator" /\ HasPropagationModel /\ round = 1
    /\ MisfitTests = {1}
    /\ TagOf(ItemsOf(cfg.data, "tests")[1]) = JStr("node movements")
    /\ ~HasKey(ItemsOf(cfg.data, "tests")[1], "timeframe")
    /\ Len(Printed.errors) > 0
    /\ spec = <<>>

(***************************************************************************)
(* C20: the two lists of findings are partitioned by code.                 *)
(***************************************************************************)
ErrorCodes == {"duplicate_id", "bad_position", "bad_channel", "unknown_station"}
WarningCodes == {"missing_placeholder", "non_monotonic_timeframe",
                 "backend_role_mismatch", "suspicious_noise_th"}

\* C20: in what validate_semantics returns, every record of errors has a code
\* among duplicate_id, bad_position, bad_channel, unknown_station, every
\* record of warnings a code among missing_placeholder,
\* non_monotonic_timeframe, backend_role_mismatch, suspicious_noise_th, and
\* every record has exactly the fields loc, code and msg; the result itself
\* has exactly the lists errors and warnings.
C20_FindingsPartitionedByCode ==
    (prog = "validate_semantics" /\ pc = "done") =>
        /\ DOMAIN res = {"errors", "warnings"}
        /\ \A k \in 1..Len(res.errors) :
              /\ res.errors[k].code \in ErrorCodes
              /\ DOMAIN res.errors[k] = {"loc", "code", "msg"}
        /\ \A k \in 1..Len(res.warnings) :
              /\ res.warnings[k].code \in WarningCodes
              /\ DOMAIN res.warnings[k] = {"loc", "code", "msg"}

\* a call whose errors show all four error codes and nothing but a noise
\* warning among the warnings
C20_Witness ==
    /\ prog = "validate_semantics"
    /\ pc = "done"
    /\ {res.errors[k].code : k \in 1..Len(res.errors)} = ErrorCodes
    /\ {res.warnings[k].code : k \in 1..Len(res.warnings)} = {"suspicious_noise_th"}

(***************************************************************************)
(* SpecCalls: successive calls of validate_semantics in one process, on    *)
(* specifications drawn from a pool, in any order.                         *)
(***************************************************************************)
MaxCalls == 4

\* Mutant of CallFrame: the timeframe map of the preceding call is kept
CallFrame_KeptMap(left) == [errors |-> <<>>, warnings |-> <<>>, last_tf |-> left.last_tf]

\* the locals a call starts with: errors = [], warnings = [] (lines 165-166),
\* last_tf = defaultdict(lambda: -1) (line 211); left is what the preceding
\* call of the process ended with
CallFrame(left) == [errors |-> <<>>, warnings |-> <<>>, last_tf |-> <<>>]

\* one call of validate_semantics(spec_): the argument as given, the argument
\* after the call (the function assigns to none of its attributes), the
\* returned dict and the locals at return
SemanticsCall(spec_, left) ==
    LET f0 == CallFrame(left)
        e0 == f0.errors
                \o DuplicateIdFindings(spec_)
                \o ApLoop(spec_.topo.aps, Len(spec_.topo.aps))
                \o StationLoop(spec_.topo.stations, Len(spec_.topo.stations))
        st == TestsLoop([errors |-> e0, warnings |-> f0.warnings, last_tf |-> f0.last_tf],
                        StaSet(spec_), spec_.tests, Len(spec_.tests))
    IN  [given |-> spec_,
         spec |-> spec_,
         res |-> [errors |-> st.errors,
                  warnings |-> st.warnings \o BackendFindings(spec_) \o NoiseFindings(spec_)],
         last_tf |-> st.last_tf]

\* what the process holds before its first call
NoCall == [last_tf |-> <<>>]
LastCall == IF calls = <<>> THEN NoCall ELSE calls[Len(calls)]

CallMove(node, tf) ==
    [name |-> "t", type |-> "node movements", timeframe |-> tf, node |-> node,
     position |-> PosOk]

\* the specifications called on: Moves of one station at timeframe 5, at
\* timeframe 3, Moves that name an undeclared node, and the specification
\* that draws every warning
CallPool ==
    {MkSpec("mininet-wifi", -91, <<>>, <<[id |-> "n1", position |-> PosOk]>>,
            <<CallMove("n1", 5)>>),
     MkSpec("mininet-wifi", -91, <<>>, <<[id |-> "n1", position |-> PosOk]>>,
            <<CallMove("n1", 3)>>),
     MkSpec("mininet-wifi", -91, <<>>, <<[id |-> "n1", position |-> PosBad]>>,
            <<CallMove("n2", 2), CallMove("n1", 2)>>),
     AllWarningsSpec}

InitCalls ==
    /\ prog = "validate_semantics calls"
    /\ pc = "start"
    /\ cfg = NoConfig
    /\ args = NoArgs
    /\ stdout = <<>>
    /\ exit_code = NoExit
    /\ emitted = <<>>
    /\ topo_py = <<>>
    /\ round = 1
    /\ first = <<>>
    /\ spec = <<>>
    /\ res = NoFindings
    /\ ok = FALSE
    /\ OthersIdle

\* res = validate_semantics(s), for a specification s of the pool
ValidateSemanticsCall ==
    /\ prog = "validate_semantics calls"
    /\ Len(calls) < MaxCalls
    /\ \E s \in CallPool :
         \E r \in {SemanticsCall(s, LastCall)} :
             /\ calls' = Append(calls, r)
             /\ spec' = r.spec
             /\ res' = r.res
             /\ ok' = MainOk(r.res)
    /\ UNCHANGED <<prog, pc, cfg, args, stdout, exit_code, emitted, topo_py, round, first>>
    /\ UNCHANGED <<runner, iwlink, loader>>

NextCalls == ValidateSemanticsCall

SpecCalls == InitCalls /\ [][NextCalls]_vars

\* C21: validate_semantics is a function of its argument alone: every call
\* leaves the specification it was given unchanged, returns what a call on
\* that specification returns in a fresh process, and two calls of one
\* process on equal specifications return equal errors and warnings,
\* whatever was called before and between them.
C21_ValidateSemanticsPure ==
    \A i \in 1..Len(calls) :
        /\ calls[i].spec = calls[i].given
        /\ calls[i].res = ValidateSemantics(calls[i].given)
        /\ \A j \in 1..Len(calls) :
              calls[i].given = calls[j].given => calls[i].res = calls[j].res

\* the Move at timeframe 3 validated before and after the Move of the same
\* station at timeframe 5: no warning either time
C21_Witness ==
    /\ Len(calls) = 3
    /\ calls[1].given = calls[3].given
    /\ calls[1].given # calls[2].given
    /\ calls[3].given.tests = <<CallMove("n1", 3)>>
    /\ calls[2].given.tests = <<CallMove("n1", 5)>>
    /\ calls[2].last_tf = [n \in {"n1"} |-> 5]
    /\ calls[3].res.warnings = <<>>

\* C22: a position the schema-level check accepts never draws bad_position:
\* when _validate_position_str does not raise on a string, _positions_tuple
\* returns three numbers for it, and validate_semantics reports no
\* bad_position for a station and none for an access point at that position.
C22_SchemaSubsumesPositionCheck ==
    (prog = "position" /\ pc = "done" /\ ~stdout[1].validate_raises) =>
        /\ stdout[1].tuple # <<>>
        /\ Len(stdout[1].tuple[1]) = 3
        /\ WithCode(res.errors, "bad_position") = {}
        /\ WithCode(stdout[1].as_ap.errors, "bad_position") = {}

\* an accepted position with a sign, a fraction and padding
C22_Witness ==
    /\ prog = "position" /\ pc = "done"
    /\ ~stdout[1].validate_raises
    /\ ParsedPosition = <<" ", "\n">> \o CharsNeg1_5 \o <<" ", ",", "\t">> \o Chars0
                           \o <<" ", ",", "\t">> \o Chars10_25 \o <<" ", "\n">>
    /\ stdout[1].tuple # <<>>
    /\ stdout[1].as_ap.errors = <<>>

(***************************************************************************)
(* C23: the semantic channel rule behind the schema bound.                 *)
(***************************************************************************)
\* the access points of the loaded file
LoadedAps == ItemsOf(Get(cfg.data, "topo"), "aps")

\* C23: in a run of main, a file with an access point whose channel is <= 0
\* is rejected by the schema, at that channel, whatever the mode, and
\* validate_semantics is not run; in every run that reaches
\* validate_semantics every access point has channel > 0 and neither the
\* findings nor the printed result hold a bad_channel error.
C23_SchemaSubsumesChannelCheck ==
    (Finished /\ prog = "inputvalidator" /\ HasPropagationModel) =>
        /\ \A k \in 1..Len(LoadedAps) :
              (IsNumber(LoadedAps[k], "channel") /\ Get(LoadedAps[k], "channel").n <= 0) =>
                  /\ SchemaErrorAt(Loc("topo.aps", k - 1, "channel"))
                  /\ res = NoFindings
        /\ spec # <<>> =>
              /\ \A k \in 1..Len(spec.topo.aps) : spec.topo.aps[k].channel > 0
              /\ WithCode(res.errors, "bad_channel") = {}
        /\ WithCode(Printed.errors, "bad_channel") = {}

\* a file whose access point has mode "a" and channel 0: stopped by the schema
C23_Witness ==
    /\ Finished /\ prog = "inputvalidator" /\ HasPropagationModel
    /\ Len(LoadedAps) = 1
    /\ Get(LoadedAps[1], "mode") = JStr("a")
    /\ Get(LoadedAps[1], "channel") = JInt(0)
    /\ Len(Printed.errors) = 1
    /\ SchemaErrorAt(Loc("topo.aps", 0, "channel"))
    /\ spec = <<>>

(***************************************************************************)
(* C24: Moves of a node that is not a declared station.                    *)
(***************************************************************************)
\* the 1-based places of the Moves whose node is no declared station
UndeclaredMoves ==
    {k \in 1..Len(spec.tests) :
        IsMove(spec.tests[k]) /\ ~DeclaredStation(spec.tests[k].node)}

\* the greatest timeframe of the Moves of tests[k]'s node before place k
\* (-1 when there is none), and the message values of a warning at k
GreatestBefore(k) ==
    LET tfs == {spec.tests[j].timeframe :
                   j \in {i \in 1..(k - 1) : /\ IsMove(spec.tests[i])
                                             /\ spec.tests[i].node = spec.tests[k].node}}
    IN  IF tfs = {} THEN -1 ELSE CHOOSE m \in tfs : \A n \in tfs : n <= m

\* C24: a Move whose node is no declared station is tracked like any other:
\* it draws unknown_station at its node, and it draws
\* non_monotonic_timeframe at its timeframe exactly when an earlier Move of
\* the same name, declared or not, has a greater timeframe, the warning
\* naming the greatest timeframe seen for that name; so one Move can draw
\* both in one call.
C24_UnknownNodeStillTracked ==
    (prog = "validate_semantics" /\ pc = "done") =>
        \A k \in UndeclaredMoves :
            LET warned == FindingsAt(res.warnings, "non_monotonic_timeframe",
                                     "tests", k - 1, "timeframe")
            IN  /\ Cardinality(FindingsAt(res.errors, "unknown_station",
                                          "tests", k - 1, "node")) = 1
                /\ Cardinality(warned) = (IF EarlierGreater(k) THEN 1 ELSE 0)
                /\ \A w \in warned :
                      /\ res.warnings[w].msg.s = spec.tests[k].node
                      /\ res.warnings[w].msg.n1 = spec.tests[k].timeframe
                      /\ res.warnings[w].msg.n2 = GreatestBefore(k)

\* no station declared; Moves of n2 at timeframes 5, 2, 3: the third draws
\* both findings, against the maximum 5 that the first Move set
C24_Witness ==
    /\ prog = "validate_semantics" /\ pc = "done"
    /\ spec.topo.stations = <<>>
    /\ Len(spec.tests) = 3
    /\ \A k \in 1..3 : IsMove(spec.tests[k]) /\ spec.tests[k].node = "n2"
    /\ [k \in 1..3 |-> spec.tests[k].timeframe] = <<5, 2, 3>>
    /\ FindingsAt(res.errors, "unknown_station", "tests", 2, "node") # {}
    /\ \E w \in FindingsAt(res.warnings, "non_monotonic_timeframe", "tests", 2, "timeframe") :
          res.warnings[w].msg.n2 = 5

(***************************************************************************)
(* C25: the order of the findings.                                         *)
(***************************************************************************)
\* the place of a record in the order claimed: the stage that reports it,
\* the index of the entity, and its rank among the findings of one entity
ErrorPlace(f) ==
    CASE f.code = "duplicate_id" -> <<0, 0, 0>>
      [] f.loc.base = "topo.aps" -> <<1, f.loc.idx, IF f.code = "bad_position" THEN 0 ELSE 1>>
      [] f.loc.base = "topo.stations" -> <<2, f.loc.idx, 0>>
      [] f.loc.base = "tests" -> <<3, f.loc.idx, 0>>

WarningPlace(f) ==
    CASE f.loc.base = "tests" -> <<0, f.loc.idx, 0>>
      [] f.code = "backend_role_mismatch" -> <<1, 0, 0>>
      [] f.code = "suspicious_noise_th" -> <<2, 0, 0>>

\* a comes strictly before b
Before(a, b) ==
    \/ a[1] < b[1]
    \/ a[1] = b[1] /\ a[2] < b[2]
    \/ a[1] = b[1] /\ a[2] = b[2] /\ a[3] < b[3]

\* C25: in what validate_semantics returns, errors holds the duplicate_id
\* record first, then the findings of the access points by ascending index,
\* then those of the stations by ascending index, then the unknown_station
\* records by ascending test index; warnings holds the warnings of the tests
\* by ascending test index, then backend_role_mismatch, then
\* suspicious_noise_th.
C25_FindingsInFixedOrder ==
    (prog = "validate_semantics" /\ pc = "done") =>
        /\ \A i, j \in 1..Len(res.errors) :
              i < j => Before(ErrorPlace(res.errors[i]), ErrorPlace(res.errors[j]))
        /\ \A i, j \in 1..Len(res.warnings) :
              i < j => Before(WarningPlace(res.warnings[i]), WarningPlace(res.warnings[j]))
        /\ res = ValidateSemantics(spec)

\* two access points and two stations with every cause planted: eight errors
\* and four warnings, in the order claimed
C25_Witness ==
    /\ prog = "validate_semantics" /\ pc = "done"
    /\ Len(spec.topo.aps) = 2
    /\ [k \in 1..Len(res.errors) |-> res.errors[k].code] =
          <<"duplicate_id", "bad_position", "bad_channel", "bad_position", "bad_channel",
            "bad_position", "bad_position", "unknown_station">>
    /\ [k \in 1..Len(res.warnings) |-> res.warnings[k].code] =
          <<"non_monotonic_timeframe", "missing_placeholder", "backend_role_mismatch",
            "suspicious_noise_th">>

(***************************************************************************)
(* C26: every run prints one result and exits. main is straight-line code  *)
(* whose loops run over the finite lists of the loaded file, so a started  *)
(* run proceeds to its sys.exit: weak fairness of the run.                 *)
(***************************************************************************)
\* the step of a run of inputvalidator's main seen on its position alone:
\* every step of Next that takes the run from "start" to "done" is
\* InputValidatorMain
MainReturns == prog = "inputvalidator" /\ pc = "start" /\ pc' = "done"

SpecTerminating == Init /\ [][Next]_vars /\ WF_pc(MainReturns)

\* what holds of a run of inputvalidator's main at every moment
OneResultAndStatus ==
    prog = "inputvalidator" =>
        IF pc = "start"
        THEN stdout = <<>> /\ exit_code = NoExit
        ELSE /\ Len(stdout) = 1
             /\ exit_code = (IF Printed.ok THEN 0 ELSE 1)
             /\ spec = <<>> => Printed.warnings = <<>> /\ exit_code = 1

StationMap(raw) ==
    LET stations == Get(Get(raw, "topo"), "stations").items
    IN  {Get(stations[k], "id") : k \in 1..Len(stations)}

\* tests_by_timeframe before any test is placed
NoBuckets == [raised |-> FALSE, buckets |-> << <<>> >>]

\* one turn of the grouping loop for the test t declared at place k:
\* t["timeframe"] raises KeyError when the key is absent; the list grows
\* until the index exists; a negative index counts from the end of the list
\* and raises IndexError beyond its start
PlaceTest(g, t, k) ==
    IF g.raised THEN g
    ELSE IF ~HasKey(t, "timeframe") THEN [raised |-> TRUE, buckets |-> g.buckets]
    ELSE LET tf == Get(t, "timeframe").n
             more == IF tf + 1 > Len(g.buckets) THEN tf + 1 - Len(g.buckets) ELSE 0
             grown == g.buckets \o [j \in 1..more |-> <<>>]
             at == IF tf >= 0 THEN tf + 1 ELSE Len(grown) + tf + 1
         IN  IF at < 1 THEN [raised |-> TRUE, buckets |-> g.buckets]
             ELSE [raised |-> FALSE,
                   buckets |-> [grown EXCEPT ![at] = Append(@, k)]]

\* the grouping loop over the first k tests; a bucket holds the places of
\* its tests in the declared list
RECURSIVE GroupByTimeframe(_, _)
GroupByTimeframe(tests, k) ==
    IF k = 0 THEN NoBuckets
    ELSE PlaceTest(GroupByTimeframe(tests, k - 1), tests[k], k)

\* the tests of the emitted file
EmittedTests == Get(emitted[1], "tests").items

Emitting == Finished /\ prog = "inputvalidator" /\ emitted # <<>>

\* C27 as stated: every canonical spec the validator emits can be consumed
\* by the runner: it has the keys main reads, each entry of tests carries
\* the timeframe key, so run_tests places every test in one bucket without
\* raising, and every "node movements" test names a key of the station map.
C27_EmittedSpecRunnable ==
    Emitting =>
        /\ HasKey(emitted[1], "topo") /\ HasKey(emitted[1], "tests")
        /\ \A k \in 1..Len(EmittedTests) : HasKey(EmittedTests[k], "timeframe")
        /\ \E g \in {GroupByTimeframe(EmittedTests, Len(EmittedTests))} :
              /\ ~g.raised
              /\ \A k \in 1..Len(EmittedTests) :
                    \E b \in 1..Len(g.buckets) :
                        \E j \in 1..Len(g.buckets[b]) : g.buckets[b][j] = k
        /\ \A k \in 1..Len(EmittedTests) :
              TagOf(EmittedTests[k]) = JStr("node movements") =>
                  Get(EmittedTests[k], "node") \in StationMap(emitted[1])

\* an emitted file with an "iw" test, on which the grouping loop raises
C27_Witness ==
    /\ Emitting
    /\ \E k \in 1..Len(EmittedTests) :
          /\ TagOf(EmittedTests[k]) = JStr("iw")
          /\ ~HasKey(EmittedTests[k], "timeframe")
    /\ GroupByTimeframe(EmittedTests, Len(EmittedTests)).raised

(***************************************************************************)
(* Runs of mininet-script.py (specification SpecRunner). main loads the    *)
(* file, build_from_spec makes the node maps, run_tests groups the tests   *)
(* and then, bucket by bucket, runs the tests of the bucket, pingall_full  *)
(* and the link check, and writes the bucket's file. The files drawn hold  *)
(* what the validator emits (Moves of declared stations, iw tests) and     *)
(* what a hand-written file may hold (ping tests, other types, Moves of    *)
(* an unknown node).                                                       *)
(***************************************************************************)
MaxRunnerTests == 3

RunnerMove(node, tf, pos) ==
    JObj(<<<<"name", JStr("mv")>>, <<"type", JStr("node movements")>>,
           <<"timeframe", JInt(tf)>>, <<"node", JStr(node)>>,
           <<"position", JStr(pos)>> >>)

RunnerIw ==
    JObj(<<<<"name", JStr("link")>>, <<"type", JStr("iw")>>,
           <<"cmd", JStr("iw dev {interface} link")>> >>)

RunnerPing(src, dst, tf) ==
    JObj(<<<<"name", JStr("p")>>, <<"type", JStr("ping")>>, <<"timeframe", JInt(tf)>>,
           <<"src", JStr(src)>>, <<"dst", JStr(dst)>>, <<"count", JInt(1)>> >>)

\* a test of a type run_tests has no branch for, with a timeframe
RunnerOther(tf) ==
    JObj(<<<<"name", JStr("x")>>, <<"type", JStr("iperf")>>, <<"timeframe", JInt(tf)>> >>)

RunnerTests ==
    {RunnerMove("n1", 0, "1,1,0"), RunnerMove("n1", 1, "2,2,0"),
     RunnerMove("n2", 2, "3,3,0"), RunnerMove("n9", 1, "5,5,0"),
     RunnerIw, RunnerPing("n1", "n3", 1), RunnerPing("n1", "n9", 0), RunnerOther(0)}

RunnerNode(id) == JObj(<<<<"id", JStr(id)>>, <<"position", JStr("0,0,0")>> >>)

RunnerFile(stations, tests_) ==
    JObj(<<<<"topo", JObj(<<<<"nets", JObj(<<<<"noise_th", JInt(-91)>> >>)>>,
                           <<"aps", JList(<<RunnerNode("n3")>>)>>,
                           <<"stations", JList(stations)>> >>)>>,
           <<"tests", JList(tests_)>> >>)

\* the keys of a dict filled in the order of ids: a repeated key keeps its place
RECURSIVE DictOrder(_, _)
DictOrder(ids, k) ==
    IF k = 0 THEN <<>>
    ELSE IF \E j \in 1..(k - 1) : ids[j] = ids[k] THEN DictOrder(ids, k - 1)
    ELSE Append(DictOrder(ids, k - 1), ids[k])

MapKeys(raw, key) ==
    LET nodes == Get(Get(raw, "topo"), key).items
    IN  DictOrder([k \in 1..Len(nodes) |-> Get(nodes[k], "id").s], Len(nodes))

\* the position build_from_spec gives each station
FirstPositions(raw) ==
    LET nodes == Get(Get(raw, "topo"), "stations").items
    IN  [id \in {Get(nodes[k], "id").s : k \in 1..Len(nodes)} |->
            Get(nodes[CHOOSE k \in 1..Len(nodes) :
                        /\ Get(nodes[k], "id").s = id
                        /\ \A j \in (k + 1)..Len(nodes) : Get(nodes[j], "id").s # id],
                "position").s]

InitRunner ==
    /\ prog = "mininet-script"
    /\ pc = "start"
    /\ cfg = NoConfig
    /\ args = NoArgs
    /\ spec = <<>>
    /\ res = NoFindings
    /\ ok = FALSE
    /\ stdout = <<>>
    /\ exit_code = NoExit
    /\ emitted = <<>>
    /\ topo_py = <<>>
    /\ round = 1
    /\ first = <<>>
    /\ calls = <<>>
    /\ IwIdle
    /\ LoaderIdle
    /\ \E st \in {<<RunnerNode("n1")>>, <<RunnerNode("n1"), RunnerNode("n2")>>},
          t \in SeqsUpTo(RunnerTests, MaxRunnerTests) :
          argv1 = <<RunnerFile(st, t)>>
    /\ sta_objs = <<>> /\ ap_objs = <<>> /\ position = <<>>
    /\ tests_by_timeframe = <<>> /\ timeframe = 0 /\ sub_t = 0
    /\ out = <<>> /\ outfiles = <<>> /\ executed = <<>>

\* the tests run_tests is given: raw["tests"]
GivenTests == Get(argv1[1], "tests").items

RunnerRest == <<cfg, args, spec, res, ok, stdout, exit_code, emitted, topo_py, round,
                first, calls, iwlink, loader>>

\* main, lines 291-297: json.load and build_from_spec
BuildFromSpec ==
    /\ prog = "mininet-script"
    /\ pc = "start"
    /\ sta_objs' = MapKeys(argv1[1], "stations")
    /\ ap_objs' = MapKeys(argv1[1], "aps")
    /\ position' = FirstPositions(argv1[1])
    /\ pc' = "run_tests"
    /\ UNCHANGED <<prog, argv1, tests_by_timeframe, timeframe, sub_t, out, outfiles,
                   executed>>
    /\ UNCHANGED RunnerRest

\* run_tests, lines 238-243: a KeyError or IndexError ends the run
GroupTests ==
    /\ prog = "mininet-script"
    /\ pc = "run_tests"
    /\ \E g \in {GroupByTimeframe(GivenTests, Len(GivenTests))} :
          /\ tests_by_timeframe' = g.buckets
          /\ pc' = IF g.raised THEN "raised" ELSE "sub_tests"
          /\ sub_t' = IF g.raised THEN sub_t ELSE 1
    /\ UNCHANGED <<prog, argv1, sta_objs, ap_objs, position, timeframe, out, outfiles,
                   executed>>
    /\ UNCHANGED RunnerRest

InMap(ids, id) == \E j \in 1..Len(ids) : ids[j] = id

\* whether the branch of the test t raises: sta_objs[src] and sta_objs[node]
\* raise KeyError, and dst_node.IP() raises AttributeError on None
SubTestRaises(t) ==
    CASE Get(t, "type") = JStr("ping") ->
            \/ ~InMap(sta_objs, Get(t, "src").s)
            \/ ~(InMap(sta_objs, Get(t, "dst").s) \/ InMap(ap_objs, Get(t, "dst").s))
      [] Get(t, "type") = JStr("node movements") -> ~InMap(sta_objs, Get(t, "node").s)
      [] OTHER -> FALSE

\* one turn of the inner loop, lines 250-274
RunSubTest ==
    /\ prog = "mininet-script"
    /\ pc = "sub_tests"
    /\ sub_t <= Len(tests_by_timeframe[timeframe + 1])
    /\ \E k \in {tests_by_timeframe[timeframe + 1][sub_t]} :
        \E t \in {GivenTests[k]} :
          IF SubTestRaises(t)
          THEN /\ pc' = "raised"
               /\ UNCHANGED <<position, out, executed, sub_t>>
          ELSE /\ pc' = pc
               /\ sub_t' = sub_t + 1
               /\ executed' = Append(executed, k)
               /\ position' = IF Get(t, "type") = JStr("node movements")
                              THEN [position EXCEPT ![Get(t, "node").s] =
                                                        Get(t, "position").s]
                              ELSE position
               /\ out' = CASE Get(t, "type") = JStr("ping") ->
                                 Append(out, [op |-> "ping", test |-> k])
                           [] Get(t, "type") = JStr("node movements") -> out
                           [] OTHER -> Append(out, [op |-> "skip", test |-> k])
    /\ UNCHANGED <<prog, argv1, sta_objs, ap_objs, tests_by_timeframe, timeframe, outfiles>>
    /\ UNCHANGED RunnerRest

\* lines 275-278: run_pingall_full, which first prints where each node is
PingallFull ==
    /\ prog = "mininet-script"
    /\ pc = "sub_tests"
    /\ sub_t > Len(tests_by_timeframe[timeframe + 1])
    /\ out' = Append(out, [op |-> "pingall_full", test_name |-> timeframe,
                           positions |-> position])
    /\ pc' = "check_all_links"
    /\ UNCHANGED <<prog, argv1, sta_objs, ap_objs, position, tests_by_timeframe, timeframe,
                   sub_t, outfiles, executed>>
    /\ UNCHANGED RunnerRest

\* lines 280-281: run_iw_stations(..., "iw dev {interface} link", "check_all_links")
CheckAllLinks ==
    /\ prog = "mininet-script"
    /\ pc = "check_all_links"
    /\ out' = Append(out, [op |-> "iw_stations", test_name |-> "check_all_links"])
    /\ pc' = "write"
    /\ UNCHANGED <<prog, argv1, sta_objs, ap_objs, position, tests_by_timeframe, timeframe,
                   sub_t, outfiles, executed>>
    /\ UNCHANGED RunnerRest

\* lines 283-285, and the outer loop's next turn (out = "") or its end
WriteOutfile ==
    /\ prog = "mininet-script"
    /\ pc = "write"
    /\ outfiles' = Append(outfiles, [name |-> timeframe, text |-> out])
    /\ IF timeframe + 1 < Len(tests_by_timeframe)
       THEN /\ timeframe' = timeframe + 1
            /\ sub_t' = 1
            /\ out' = <<>>
            /\ pc' = "sub_tests"
       ELSE /\ pc' = "done"
            /\ UNCHANGED <<timeframe, sub_t, out>>
    /\ UNCHANGED <<prog, argv1, sta_objs, ap_objs, position, tests_by_timeframe, executed>>
    /\ UNCHANGED RunnerRest

NextRunner ==
    BuildFromSpec \/ GroupTests \/ RunSubTest \/ PingallFull \/ CheckAllLinks \/ WriteOutfile

SpecRunner == InitRunner /\ [][NextRunner]_vars

\* how many times x occurs in seq
Times(seq, x) == Cardinality({j \in 1..Len(seq) : seq[j] = x})

TimeframeOf(k) == Get(GivenTests[k], "timeframe").n

\* the greatest timeframe of the given tests, 0 when there is none
LastTimeframe ==
    IF GivenTests = <<>> THEN 0
    ELSE LET m == CHOOSE k \in 1..Len(GivenTests) :
                      \A j \in 1..Len(GivenTests) : TimeframeOf(j) <= TimeframeOf(k)
         IN  IF TimeframeOf(m) > 0 THEN TimeframeOf(m) ELSE 0

\* the run is past the grouping loop and has not raised
InBuckets == pc \in {"sub_tests", "check_all_links", "write", "done"}

\* the buckets whose file must have been written
BucketsWritten == IF pc = "done" THEN timeframe + 1 ELSE timeframe

\* C28 as stated: run_tests executes every test exactly once. The buckets
\* are 0..max(timeframe), bucket 0 also without tests, and each test is in
\* the bucket of its timeframe; the tests run by ascending bucket and, in a
\* bucket, in declared order; after the tests of each bucket pingall_full and
\* then the link check run; one file timeframe<N>.txt is written per bucket,
\* before the next bucket starts.
C28_EveryTestOnceByBucket ==
    prog = "mininet-script" =>
        /\ pc \in {"done", "raised"} =>
              \A k \in 1..Len(GivenTests) : Times(executed, k) = 1
        /\ InBuckets =>
              /\ Len(tests_by_timeframe) = LastTimeframe + 1
              /\ \A k \in 1..Len(GivenTests) :
                    Times(tests_by_timeframe[TimeframeOf(k) + 1], k) = 1
              /\ \A i, j \in 1..Len(executed) :
                    i < j =>
                        \/ TimeframeOf(executed[i]) < TimeframeOf(executed[j])
                        \/ /\ TimeframeOf(executed[i]) = TimeframeOf(executed[j])
                           /\ executed[i] < executed[j]
              /\ \A k \in 1..Len(GivenTests) :
                    /\ TimeframeOf(k) < timeframe => Times(executed, k) = 1
                    /\ TimeframeOf(k) > timeframe => Times(executed, k) = 0
              /\ pc \in {"check_all_links", "write", "done"} =>
                    \A k \in 1..Len(GivenTests) :
                        TimeframeOf(k) = timeframe => Times(executed, k) = 1
              /\ Len(outfiles) = BucketsWritten
              /\ \A n \in 1..Len(outfiles) :
                    /\ outfiles[n].name = n - 1
                    /\ \E m \in {Len(outfiles[n].text)} :
                          /\ m >= 2
                          /\ outfiles[n].text[m - 1].op = "pingall_full"
                          /\ outfiles[n].text[m - 1].test_name = n - 1
                          /\ outfiles[n].text[m].op = "iw_stations"
                          /\ \A e \in 1..(m - 2) :
                                /\ outfiles[n].text[e].op \in {"ping", "skip"}
                                /\ TimeframeOf(outfiles[n].text[e].test) = n - 1

\* a finished run of three buckets, the middle one empty, on a file with a
\* Move at timeframe 0 and a Move at timeframe 2
C28_Witness ==
    /\ prog = "mininet-script" /\ pc = "done"
    /\ Len(tests_by_timeframe) = 3
    /\ tests_by_timeframe[2] = <<>>
    /\ executed = <<1, 2>>
    /\ Len(outfiles) = 3
    /\ position["n1"] = "1,1,0" /\ position["n2"] = "3,3,0"

(***************************************************************************)
(* run_iw_stations (specification SpecIwStations): for each station the    *)
(* command, repeated while its output holds "Not connected" and retries    *)
(* are left, then for each access point ifconfig. What a command prints    *)
(* is the environment's choice at every execution.                         *)
(***************************************************************************)
MaxIwStations == 2
MaxIwAps == 1

\* retries = 5
Retries == 5

NotConnected == <<"N", "o", "t", " ", "c", "o", "n", "n", "e", "c", "t", "e", "d">>

\* what a command may print
Outputs ==
    {<<"\n">> \o NotConnected \o <<".">>,
     <<"n", "o", "t", " ", "c", "o", "n", "n", "e", "c", "t", "e", "d">>,
     <<"C", "o", "n", "n", "e", "c", "t", "e", "d", " ", "t", "o">>}

StationNames == <<"n1", "n2", "n4", "n5">>
ApNames == <<"n3", "n6", "n7">>

InitIwStations ==
    /\ prog = "run_iw_stations"
    /\ pc = "start"
    /\ cfg = NoConfig
    /\ args = NoArgs
    /\ spec = <<>>
    /\ res = NoFindings
    /\ ok = FALSE
    /\ stdout = <<>>
    /\ exit_code = NoExit
    /\ emitted = <<>>
    /\ topo_py = <<>>
    /\ round = 1
    /\ first = <<>>
    /\ calls = <<>>
    /\ argv1 = <<>> /\ position = <<>>
    /\ tests_by_timeframe = <<>> /\ timeframe = 0 /\ sub_t = 0
    /\ out = <<>> /\ outfiles = <<>> /\ executed = <<>>
    /\ \E n \in 0..MaxIwStations : sta_objs = SubSeq(StationNames, 1, n)
    /\ \E n \in 0..MaxIwAps : ap_objs = SubSeq(ApNames, 1, n)
    /\ IwIdle
    /\ LoaderIdle

IwRest == <<cfg, args, spec, res, ok, stdout, exit_code, emitted, topo_py, round, first,
            calls, argv1, sta_objs, ap_objs, position, tests_by_timeframe, timeframe,
            sub_t, out, outfiles, executed, loader>>

\* actual_cmd: the command with {interface} replaced by <name>-wlan0
ActualCmd(name) == <<"iw dev ", name, "-wlan0", " link">>

\* Mutant of KeepsWaiting: the retry that reaches 0 is still followed by one
KeepsWaiting_OneMore(text, left) == Contains(text, NotConnected) /\ left >= 0

\* the condition of the while loop
KeepsWaiting(text, left) == Contains(text, NotConnected) /\ left > 0

\* lines 180-183
IwBegin ==
    /\ prog = "run_iw_stations"
    /\ pc = "start"
    /\ lines' = <<[op |-> "msg"], [op |-> "rule"]>>
    /\ pc' = "stations"
    /\ UNCHANGED <<prog, station, access_point, retries, result, cmds>>
    /\ UNCHANGED IwRest

\* lines 185-196: the station's header, retries = 5 and the first execution
EnterStation ==
    /\ prog = "run_iw_stations"
    /\ pc = "stations"
    /\ station < Len(sta_objs)
    /\ station' = station + 1
    /\ lines' = Append(lines, [op |-> "station", node |-> sta_objs[station + 1]])
    /\ retries' = Retries
    /\ \E o \in Outputs :
          /\ result' = <<o>>
          /\ cmds' = Append(cmds, [node |-> sta_objs[station + 1],
                                   cmd |-> ActualCmd(sta_objs[station + 1]),
                                   output |-> o])
    /\ pc' = "while"
    /\ UNCHANGED <<prog, access_point>>
    /\ UNCHANGED IwRest

\* lines 197-201: one turn of the while loop
Retry ==
    /\ prog = "run_iw_stations"
    /\ pc = "while"
    /\ KeepsWaiting(result[1], retries)
    /\ \E o \in Outputs :
          /\ result' = <<o>>
          /\ cmds' = Append(cmds, [node |-> sta_objs[station],
                                   cmd |-> ActualCmd(sta_objs[station]),
                                   output |-> o])
    /\ retries' = retries - 1
    /\ UNCHANGED <<prog, pc, station, access_point, lines>>
    /\ UNCHANGED IwRest

\* lines 203-204: the loop is left and the station's entry appended
RecordStation ==
    /\ prog = "run_iw_stations"
    /\ pc = "while"
    /\ ~KeepsWaiting(result[1], retries)
    /\ lines' = lines \o <<[op |-> "Command", node |-> sta_objs[station],
                            cmd |-> ActualCmd(sta_objs[station])],
                           [op |-> "Output", node |-> sta_objs[station],
                            output |-> result[1]]>>
    /\ pc' = "stations"
    /\ UNCHANGED <<prog, station, access_point, retries, result, cmds>>
    /\ UNCHANGED IwRest

\* lines 207-217: one access point, ifconfig <name>-wlan1 executed once
RecordAp ==
    /\ prog = "run_iw_stations"
    /\ pc = "stations"
    /\ station = Len(sta_objs)
    /\ access_point < Len(ap_objs)
    /\ access_point' = access_point + 1
    /\ \E o \in Outputs, name \in {ap_objs[access_point + 1]} :
          /\ result' = <<o>>
          /\ cmds' = Append(cmds, [node |-> name,
                                   cmd |-> <<"ifconfig ", name, "-wlan1">>,
                                   output |-> o])
          /\ lines' = lines \o <<[op |-> "ap", node |-> name],
                                 [op |-> "Command", node |-> name,
                                  cmd |-> <<"ifconfig ", name, "-wlan1">>],
                                 [op |-> "Output", node |-> name, output |-> o]>>
    /\ UNCHANGED <<prog, pc, station, retries>>
    /\ UNCHANGED IwRest

\* lines 218-219
IwReturn ==
    /\ prog = "run_iw_stations"
    /\ pc = "stations"
    /\ station = Len(sta_objs)
    /\ access_point = Len(ap_objs)
    /\ lines' = Append(lines, [op |-> "rule"])
    /\ pc' = "done"
    /\ UNCHANGED <<prog, station, access_point, retries, result, cmds>>
    /\ UNCHANGED IwRest

NextIwStations ==
    IwBegin \/ EnterStation \/ Retry \/ RecordStation \/ RecordAp \/ IwReturn

\* the function is sequential code: a step that can be taken is taken
SpecIwStations == InitIwStations /\ [][NextIwStations]_vars /\ WF_vars(NextIwStations)

\* the executions on the node, as places in cmds
ExecutionsOn(node) == {j \in 1..Len(cmds) : cmds[j].node = node}

\* the entries of the given kind recorded for the node
EntriesOf(kind, node) ==
    {j \in 1..Len(lines) : lines[j].op = kind /\ lines[j].node = node}

\* the stations whose entry is recorded
RecordedStations ==
    IF pc = "while" THEN station - 1 ELSE station

IwStationsBounded ==
    prog = "run_iw_stations" =>
        /\ \A n \in 1..Len(sta_objs) :
              /\ Cardinality(ExecutionsOn(sta_objs[n])) <= 1 + Retries
              /\ \A j \in ExecutionsOn(sta_objs[n]) :
                    (j + 1) \in ExecutionsOn(sta_objs[n]) =>
                        Contains(cmds[j].output, NotConnected)
        /\ pc = "while" =>
              /\ retries \in 0..Retries
              /\ Cardinality(ExecutionsOn(sta_objs[station])) = 1 + Retries - retries
        /\ \A n \in 1..RecordedStations :
              \E last \in ExecutionsOn(sta_objs[n]) :
                  /\ \A j \in ExecutionsOn(sta_objs[n]) : j <= last
                  /\ Contains(cmds[last].output, NotConnected) =>
                        Cardinality(ExecutionsOn(sta_objs[n])) = 1 + Retries
                  /\ \E e \in EntriesOf("Output", sta_objs[n]) :
                        lines[e].output = cmds[last].output
        /\ pc = "done" =>
              /\ \A n \in 1..Len(sta_objs) :
                    /\ Cardinality(EntriesOf("Command", sta_objs[n])) = 1
                    /\ Cardinality(EntriesOf("Output", sta_objs[n])) = 1
              /\ \A n \in 1..Len(ap_objs) :
                    /\ Cardinality(EntriesOf("Command", ap_objs[n])) = 1
                    /\ Cardinality(EntriesOf("Output", ap_objs[n])) = 1
                    /\ Cardinality(ExecutionsOn(ap_objs[n])) = 1

\* C29: in run_iw_stations the retry loop of every station ends: the command
\* is executed at most 6 times on a station (once, and at most 5 retries), an
\* execution is followed by another on the same station only when its output
\* holds "Not connected", the loop stops at the first output without it, a
\* station whose last output still holds it had all 6 executions (retries is
\* set to 5 for each station), and when the function returns, which it always
\* does, every station and every access point has one Command entry and one
\* Output entry.
C29_RetryLoopTerminates ==
    /\ []IwStationsBounded
    /\ (prog = "run_iw_stations") ~> (pc = "done")

\* the function returned after the first station used all its retries and the
\* second was connected at its third execution
C29_Witness ==
    /\ prog = "run_iw_stations" /\ pc = "done"
    /\ Len(sta_objs) = 2 /\ Len(ap_objs) = 1
    /\ Cardinality(ExecutionsOn("n1")) = 1 + Retries
    /\ \A j \in ExecutionsOn("n1") : Contains(cmds[j].output, NotConnected)
    /\ Cardinality(ExecutionsOn("n2")) = 3
    /\ ~Contains(result[1], NotConnected)

(***************************************************************************)
(* The loaders (specification SpecLoader): omenloader.py graph and         *)
(* sqliteloader.py. A run opens the database and calls process_set for the *)
(* sets 1, 2, 3 in turn; an exception of process_set ends the run. Every   *)
(* schema and ingest function ends in conn.commit(), so what a call wrote  *)
(* before it raised stays in the file. A table is named <<prefix, kind>>;  *)
(* its rows are id |-> the value last written.                             *)
(***************************************************************************)
Loaders == {"omenloader graph", "sqliteloader"}

Given(x) == x # None

\* the files under --root
DiskFiles ==
    {<<"n.csv">>, <<"n2.csv">>, <<"e.csv">>, <<"ts.csv">>,
     <<"d1", "nodes.csv">>, <<"d1", "edges.csv">>,
     <<"d1", "ping_data_movement_0.csv">>, <<"d1", "ping_data_movement_1.csv">>,
     <<"d2", "nodes.csv">>}

\* the rows of a file: id |-> value
CsvRows(path) ==
    CASE path = <<"n.csv">> -> [id \in {"n1"} |-> 1]
      [] path = <<"n2.csv">> -> [id \in {"n1", "n2"} |-> 2]
      [] path = <<"e.csv">> -> [id \in {"n1-n2"} |-> 1]
      [] path = <<"d1", "nodes.csv">> -> [id \in {"n3"} |-> 3]
      [] path = <<"d1", "edges.csv">> -> [id \in {"n3-n3"} |-> 3]
      [] OTHER -> [id \in {"0"} |-> 4]

\* sorted(set_dir.glob("ping_data_movement_*.csv"))
MovementNames == <<"ping_data_movement_0.csv", "ping_data_movement_1.csv">>

\* _auto_detect_timeseries: the first match, or None
AutoDetectTimeseries(dir) ==
    LET hits == {k \in 1..Len(MovementNames) : <<dir, MovementNames[k]>> \in DiskFiles}
    IN  IF hits = {} THEN None
        ELSE <<<<dir, MovementNames[CHOOSE k \in hits : \A j \in hits : k <= j]>>>>

EmptyTable == [rows |-> <<>>, indexed |-> FALSE]

SetTable(db, key, value) ==
    [k \in DOMAIN db \cup {key} |-> IF k = key THEN value ELSE db[k]]

\* INSERT ... ON CONFLICT(id) DO UPDATE, row by row
Upsert(rows, new) ==
    [id \in DOMAIN rows \cup DOMAIN new |-> IF id \in DOMAIN new THEN new[id] ELSE rows[id]]

\* DROP TABLE IF EXISTS of both tables, then CREATE TABLE of both
DropAndCreateSchema(db, prefix) ==
    SetTable(SetTable(db, <<prefix, "nodes">>, EmptyTable), <<prefix, "edges">>, EmptyTable)

\* CREATE TABLE IF NOT EXISTS of both tables
EnsureSchema(db, prefix) ==
    [k \in DOMAIN db \cup {<<prefix, "nodes">>, <<prefix, "edges">>} |->
        IF k \in DOMAIN db THEN db[k] ELSE EmptyTable]

\* ingest_nodes, ingest_edges
Ingest(db, key, path) ==
    SetTable(db, key, [db[key] EXCEPT !.rows = Upsert(@, CsvRows(path))])

\* CREATE INDEX IF NOT EXISTS on both tables
CreateIndexes(db, prefix) ==
    [k \in DOMAIN db |->
        IF k \in {<<prefix, "nodes">>, <<prefix, "edges">>}
        THEN [db[k] EXCEPT !.indexed = TRUE] ELSE db[k]]

\* Mutant of SetProblem: the existence of the two files is not checked
SetProblem_FilesUnchecked(program, prefix, dir, nodes, edges, ts) ==
    IF ~(Given(prefix) \/ Given(nodes) \/ Given(edges) \/ Given(dir)
            \/ (program = "omenloader graph" /\ Given(ts)))
    THEN "skipped"
    ELSE IF ~Given(prefix) THEN "ValueError"
    ELSE IF ~Given(nodes) \/ ~Given(edges) THEN "ValueError"
    ELSE "ok"

\* the checks of process_set before the schema is touched, in their order
SetProblem(program, prefix, dir, nodes, edges, ts) ==
    IF ~(Given(prefix) \/ Given(nodes) \/ Given(edges) \/ Given(dir)
            \/ (program = "omenloader graph" /\ Given(ts)))
    THEN "skipped"
    ELSE IF ~Given(prefix) THEN "ValueError"
    ELSE IF ~Given(nodes) \/ ~Given(edges) THEN "ValueError"
    ELSE IF nodes[1] \notin DiskFiles THEN "FileNotFoundError"
    ELSE IF edges[1] \notin DiskFiles THEN "FileNotFoundError"
    ELSE "ok"

\* process_set from the schema on; csv_path.open raises FileNotFoundError
\* on a file that does not exist
LoadSet(program, prefix, nodes, edges, ts, ts_table, recreate_, db0) ==
    LET s1 == IF recreate_ THEN DropAndCreateSchema(db0, prefix)
              ELSE EnsureSchema(db0, prefix)
        s2 == Ingest(s1, <<prefix, "nodes">>, nodes)
        s3 == Ingest(s2, <<prefix, "edges">>, edges)
        ts_tbl == IF Given(ts_table) THEN <<ts_table[1]>> ELSE <<prefix, "timeseries">>
        s4 == IF Given(ts)
              THEN SetTable(s3, ts_tbl, [rows |-> CsvRows(ts[1]), indexed |-> FALSE])
              ELSE s3
    IN  IF nodes \notin DiskFiles THEN [outcome |-> "FileNotFoundError", db |-> s1]
        ELSE IF edges \notin DiskFiles THEN [outcome |-> "FileNotFoundError", db |-> s2]
        ELSE IF Given(ts) /\ ts[1] \notin DiskFiles
        THEN [outcome |-> "FileNotFoundError", db |-> s3]
        ELSE [outcome |-> "loaded", db |-> CreateIndexes(s4, prefix)]

\* process_set(idx) on the arguments a of the set
ProcessSet(program, a, recreate_, db0) ==
    LET by_dir == Given(a.dir) /\ ~Given(a.nodes) /\ ~Given(a.edges)
        nodes == IF by_dir THEN <<<<a.dir[1], "nodes.csv">>>> ELSE a.nodes
        edges == IF by_dir THEN <<<<a.dir[1], "edges.csv">>>> ELSE a.edges
        ts == IF program = "sqliteloader" THEN None
              ELSE IF Given(a.dir) /\ ~Given(a.ts) THEN AutoDetectTimeseries(a.dir[1])
              ELSE a.ts
        problem == SetProblem(program, a.prefix, a.dir, nodes, edges, ts)
    IN  IF problem # "ok" THEN [outcome |-> problem, db |-> db0]
        ELSE LoadSet(program, a.prefix[1], nodes[1], edges[1], ts, a.ts_table,
                     recreate_, db0)

SetArgs(prefix, dir, nodes, edges, ts, ts_table) ==
    [prefix |-> prefix, dir |-> dir, nodes |-> nodes, edges |-> edges, ts |-> ts,
     ts_table |-> ts_table]

\* the arguments drawn for a set of sqliteloader, which has no timeseries
PlainSetCases ==
    {SetArgs(None, None, None, None, None, None),
     SetArgs(<<"a">>, None, <<<<"n.csv">>>>, <<<<"e.csv">>>>, None, None),
     SetArgs(<<"a">>, None, <<<<"n2.csv">>>>, <<<<"e.csv">>>>, None, None),
     SetArgs(<<"b">>, <<"d1">>, None, None, None, None),
     SetArgs(None, None, <<<<"n.csv">>>>, <<<<"e.csv">>>>, None, None),
     SetArgs(<<"a">>, None, <<<<"n.csv">>>>, None, None, None),
     SetArgs(<<"a">>, None, None, None, None, None),
     SetArgs(<<"a">>, <<"d1">>, <<<<"n.csv">>>>, None, None, None),
     SetArgs(<<"a">>, None, <<<<"missing.csv">>>>, <<<<"e.csv">>>>, None, None),
     SetArgs(<<"a">>, None, <<<<"n.csv">>>>, <<<<"missing.csv">>>>, None, None),
     SetArgs(<<"b">>, <<"d2">>, None, None, None, None)}

\* and for a set of omenloader graph
TimeseriesSetCases ==
    {SetArgs(None, None, None, None, None, <<"tt">>),
     SetArgs(None, None, None, None, <<<<"ts.csv">>>>, None),
     SetArgs(<<"a">>, None, <<<<"n.csv">>>>, <<<<"e.csv">>>>, <<<<"ts.csv">>>>, <<"tt">>),
     SetArgs(<<"a">>, None, <<<<"n2.csv">>>>, <<<<"e.csv">>>>, <<<<"missing.csv">>>>, None)}

SetCases(program) ==
    IF program = "sqliteloader" THEN PlainSetCases
    ELSE PlainSetCases \cup TimeseriesSetCases

\* the database file before the run: new, or with tables of an earlier run
EmptyDb == <<>>
OldDb ==
    [k \in {<<"a", "nodes">>, <<"a", "edges">>} |->
        [rows |-> [id \in {"n9"} |-> 9], indexed |-> TRUE]]

InitLoader ==
    /\ prog \in Loaders
    /\ pc = "start"
    /\ cfg = NoConfig
    /\ args = NoArgs
    /\ spec = <<>>
    /\ res = NoFindings
    /\ ok = FALSE
    /\ stdout = <<>>
    /\ exit_code = NoExit
    /\ emitted = <<>>
    /\ topo_py = <<>>
    /\ round = 1
    /\ first = <<>>
    /\ calls = <<>>
    /\ RunnerIdle
    /\ IwIdle
    /\ set_args \in [1..3 -> SetCases(prog)]
    /\ recreate \in BOOLEAN
    /\ database \in {EmptyDb, OldDb}
    /\ set_idx = 0
    /\ used = 0
    /\ set_log = <<>>

LoaderRest == <<prog, cfg, args, spec, res, ok, stdout, exit_code, emitted, topo_py, round,
                first, calls, runner, iwlink, set_args, recreate>>

\* conn = open_db(...); used = 0
OpenDb ==
    /\ prog \in Loaders
    /\ pc = "start"
    /\ pc' = "sets"
    /\ set_idx' = 1
    /\ used' = 0
    /\ UNCHANGED <<database, set_log>>
    /\ UNCHANGED LoaderRest

\* one turn of 'for i in (1, 2, 3): if process_set(i): used += 1'
ProcessNextSet ==
    /\ prog \in Loaders
    /\ pc = "sets"
    /\ set_idx \in 1..3
    /\ \E r \in {ProcessSet(prog, set_args[set_idx], recreate, database)} :
          /\ database' = r.db
          /\ set_log' = Append(set_log, [idx |-> set_idx, args |-> set_args[set_idx],
                                         outcome |-> r.outcome,
                                         before |-> database, after |-> r.db])
          /\ IF r.outcome \in {"ValueError", "FileNotFoundError"}
             THEN pc' = "raised" /\ UNCHANGED <<set_idx, used>>
             ELSE /\ pc' = pc
                  /\ set_idx' = set_idx + 1
                  /\ used' = IF r.outcome = "loaded" THEN used + 1 ELSE used
    /\ UNCHANGED LoaderRest

\* the summary is printed and the connection closed
CloseDb ==
    /\ prog \in Loaders
    /\ pc = "sets"
    /\ set_idx = 4
    /\ pc' = "done"
    /\ UNCHANGED <<database, set_idx, used, set_log>>
    /\ UNCHANGED LoaderRest

NextLoader == OpenDb \/ ProcessNextSet \/ CloseDb

SpecLoader == InitLoader /\ [][NextLoader]_vars

\* the set has an input: a prefix, a directory, a nodes or edges file, or
\* (omenloader) a timeseries file
HasInput(a) ==
    \/ Given(a.prefix) \/ Given(a.dir) \/ Given(a.nodes) \/ Given(a.edges)
    \/ (prog = "omenloader graph" /\ Given(a.ts))

\* the nodes and edges files the arguments name, by option or by directory
NamedFile(a, option, name) ==
    IF Given(option) THEN option
    ELSE IF Given(a.dir) /\ ~Given(a.nodes) /\ ~Given(a.edges) THEN <<<<a.dir[1], name>>>>
    ELSE None

\* the set has an input but no prefix, lacks nodes or edges, or names a
\* nodes or edges file that does not exist
NotLoadableSet(a) ==
    /\ HasInput(a)
    /\ \/ ~Given(a.prefix)
       \/ \E f \in {NamedFile(a, a.nodes, "nodes.csv"), NamedFile(a, a.edges, "edges.csv")} :
             ~Given(f) \/ f[1] \notin DiskFiles

Raised(e) == e.outcome \in {"ValueError", "FileNotFoundError"}

\* the tables of the set's prefix hold the rows of its two files
HoldsSet(db, a) ==
    /\ <<a.prefix[1], "nodes">> \in DOMAIN db
    /\ <<a.prefix[1], "edges">> \in DOMAIN db
    /\ \A id \in DOMAIN CsvRows(NamedFile(a, a.nodes, "nodes.csv")[1]) :
          /\ id \in DOMAIN db[<<a.prefix[1], "nodes">>].rows
          /\ db[<<a.prefix[1], "nodes">>].rows[id] =
                 CsvRows(NamedFile(a, a.nodes, "nodes.csv")[1])[id]
    /\ \A id \in DOMAIN CsvRows(NamedFile(a, a.edges, "edges.csv")[1]) :
          id \in DOMAIN db[<<a.prefix[1], "edges">>].rows

\* C30: in omenloader's graph command and in sqliteloader a set is validated
\* before its tables are touched. The sets are processed in the order 1, 2,
\* 3, each on the database the one before left committed. A set with an input
\* but no prefix, lacking nodes or edges, or naming a nodes or edges file that
\* does not exist makes process_set raise with the database, that set's
\* tables included, as it was before the call; a set with no input is skipped
\* without error and without a change; a loaded set's rows are in its tables,
\* and they are still committed after a later set of the run was skipped or
\* raised in validation.
C30_SetValidatedBeforeTouched ==
    prog \in Loaders =>
        /\ \A n \in 1..Len(set_log) :
              /\ set_log[n].idx = n
              /\ n > 1 => set_log[n].before = set_log[n - 1].after
              /\ ~HasInput(set_log[n].args) =>
                    /\ set_log[n].outcome = "skipped"
                    /\ set_log[n].after = set_log[n].before
              /\ NotLoadableSet(set_log[n].args) =>
                    /\ Raised(set_log[n])
                    /\ set_log[n].after = set_log[n].before
              /\ Raised(set_log[n]) => n = Len(set_log) /\ pc = "raised"
              /\ set_log[n].outcome = "loaded" =>
                    /\ HoldsSet(set_log[n].after, set_log[n].args)
                    /\ (\A m \in (n + 1)..Len(set_log) :
                            ~HasInput(set_log[m].args) \/ NotLoadableSet(set_log[m].args))
                          => database = set_log[n].after
        /\ set_log # <<>> => database = set_log[Len(set_log)].after

\* with --recreate, set 1 was loaded into a_nodes and a_edges, which held rows
\* of an earlier run, and set 2 names the same prefix and a nodes file that
\* does not exist: the run has raised and the tables hold set 1's rows
C30_Witness ==
    /\ prog \in Loaders /\ pc = "raised" /\ recreate
    /\ Len(set_log) = 2
    /\ set_log[1].outcome = "loaded"
    /\ set_log[1].before = OldDb
    /\ set_log[2].args.prefix = <<"a">>
    /\ set_log[2].args.nodes = <<<<"missing.csv">>>>
    /\ set_log[2].outcome = "FileNotFoundError"
    /\ DOMAIN database[<<"a", "nodes">>].rows = {"n1"}

====
